---- MODULE Spec2Model ----
(***************************************************************************)
(* Working-copy metadata store of osc (src/osc/wc/util.py): the store      *)
(* directory of a working copy, its entries, the atomic file writer, the   *)
(* classifier, the initializer and the WCLock advisory lock, as a state    *)
(* machine over a small file system shared by independent processes.       *)
(***************************************************************************)
EXTENDS Integers, Sequences, FiniteSets, TLC

(***************************************************************************)
(* Bounds of the model.                                                    *)
(***************************************************************************)
NProcs == 3
NWriters == 2
MaxLen == 2
MaxNames == 2
\* The temporary files one process may have in a store directory at a time,
\* the one it is writing and the ones its earlier writes left behind.
MaxTmp == 2

Procs == 1..NProcs
\* The processes that write and the process that reads, where a
\* specification gives the processes roles.
Writers == 1..NWriters
Reader == NWriters + 1

\* Working-copy roots (the "path" arguments) and external store directories.
Roots == {"r1", "r2"}
Exts == {"e1", "e2"}
\* Physical directories that can hold a store: the .osc directory a root owns
\* (named by the root) and the external directories.
Dirs == Roots \cup Exts

\* Characters of entry contents: two printing characters and two of the
\* whitespace characters str.strip() removes.
Chars == {"a", "b", " ", "\n"}
Whitespace == {" ", "\n"}

RECURSIVE SeqsUpTo(_)
SeqsUpTo(n) ==
    IF n = 0 THEN {<< >>}
    ELSE LET S == SeqsUpTo(n - 1)
         IN  S \cup {Append(s, c) : s \in {t \in S : Len(t) = n - 1}, c \in Chars}

\* Every str of at most MaxLen characters.
Values == SeqsUpTo(MaxLen)

(***************************************************************************)
(* Names inside the store directory.                                       *)
(***************************************************************************)
STORE == ".osc"
PKG_DATA == "data"
LOCK == "wc.lock"

Entries == {"apiurl", "project", "package", "packages", "files"}

\* wc_read_<entry> / wc_write_<entry>: the store file of each entry.
EntryFile(e) ==
    CASE e = "apiurl" -> "_apiurl"
      [] e = "project" -> "_project"
      [] e = "package" -> "_package"
      [] e = "packages" -> "_packages"
      [] e = "files" -> "_files"

EntryFiles == {EntryFile(e) : e \in Entries}

\* NamedTemporaryFile(dir=storedir, delete=False): a name made anew for
\* every file, created with O_EXCL: distinct from every entry name, from every
\* other process's and from the names of the files still in the directory.
\* The k-th name of process p.
TmpName(p, k) ==
    IF k = 1 THEN "tmp" \o ToString(p)
    ELSE "tmp" \o ToString(p) \o "+" \o ToString(k - 1)
TmpNames(p) == {TmpName(p, k) : k \in 1..MaxTmp}

VARIABLES
    py,        \* the Python major version the module runs under (2 or 3)
    inputs,    \* the arguments the calls of a run are made with (roots, exts, names, values)
               \* and the contents its entries start with (old)
    rootKind,  \* rootKind[r]: what is at path r: "absent", "file", "dir" or "rodir" (a directory that is not writable)
    extKind,   \* extKind[e]: what is at the external path e (same kinds)
    store,     \* store[r]: what is at r/.osc: "none", "dir" (a directory of its own) or the e it is a symlink to
    files,     \* files[d]: the regular files of store directory d, name -> content
    subdirs,   \* subdirs[d]: the names of the directories inside store directory d
    payload,   \* payload[d]: what d/data holds, name -> "file" or "dir"
    lockIno,   \* lockIno[d]: inode linked at d/wc.lock, 0 when there is no lock file
    inoLock,   \* inoLock[i]: the process holding the fcntl lock on inode i, 0 when unlocked
    fd,        \* fd[p]: inode of the lock file p has open, 0 when none
    fobj,      \* fobj[p]: WCLock._fobj of p's handle: an inode, 0 for None
    hpath,     \* hpath[p]: WCLock._path of p's handle
    scope,     \* scope[p]: where p stands in a with statement on its handle: "out" of
               \* any, "enter" (__enter__ called), "exit" (the body returned, __exit__
               \* called) or "exit_exc" (the body raised, __exit__ called)
    pc,        \* pc[p]: where p stands inside the call it is running, "idle" between calls
    loc,       \* loc[p]: arguments and locals of the call p is running
    ret,       \* ret[p]: the call p finished last and how it ended, none while p runs a call
    hist       \* what has happened so far: failed, a step of some write has raised;
               \* inited, the roots an init has returned for; written, the roots a
               \* write was made through; released, the processes an unlock has
               \* returned for; refused, the processes a lock() has failed to open
               \* the lock file for

vars == <<py, inputs, rootKind, extKind, store, files, subdirs, payload,
          lockIno, inoLock, fd, fobj, hpath, scope, pc, loc, ret, hist>>
envvars == <<py, inputs>>
fsvars == <<rootKind, extKind, store, files, subdirs, payload>>
lockvars == <<lockIno, inoLock, fd, fobj, hpath, scope>>

Inodes == 1..(NProcs + Cardinality(Dirs))

(***************************************************************************)
(* Exceptions: the type and the message template of each raise.            *)
(***************************************************************************)
NoExc == << >>
DoubleLock == <<"RuntimeError", "Double lock occured">>
UnacquiredLockRelease == <<"RuntimeError", "Attempting to release an unaquired lock.">>
NoValidStorefile == <<"ValueError", "'%s' is no valid storefile">>
NoStoredir == <<"ValueError", "path \"%s\" has no storedir">>
InvalidExternalStore == <<"ValueError", "ext_storedir \"%s\" is no dir or not writable">>
AlreadyAWorkingCopy == <<"ValueError", "path \"%s\" is already a working copy">>
RootNoDir == <<"ValueError", "path \"%s\" already exists but is no dir">>
PermissionDenied == <<"ValueError", "no permission to create path \"%s\"">>
StoreNotCreatable == <<"ValueError", "no permission to create a storedir (path: \"%s\")">>
TypeErrorBytes == <<"TypeError", "a bytes-like object is required, not 'str'">>
OSErr(errno) == <<"OSError", errno>>
\* An exception raised by the body of a with statement.
BodyException == <<"Exception", "raised in the body">>

\* A call: the operation and its arguments (ext = "" is ext_storedir=None).
Call(o, path, name, data, ext) ==
    [op |-> o, path |-> path, name |-> name, data |-> data, ext |-> ext]
NoCall == Call("none", "r1", "", << >>, "")
\* The locals of a running call: the pending exception, the temporary file's
\* name ("" while tmpfile is None) and what the file object has in its buffer,
\* written by the process and not yet in the file.
Locals(c) == [call |-> c, exc |-> NoExc, tmp |-> "", buf |-> << >>]
NoLoc == Locals(NoCall)
NoRet == [call |-> NoCall, kind |-> "none", val |-> << >>]
Returned(c, v) == [call |-> c, kind |-> "ok", val |-> v]
Raised(c, e) == [call |-> c, kind |-> "raise", val |-> e]

(***************************************************************************)
(* Paths.                                                                  *)
(***************************************************************************)
exists(r) == rootKind[r] # "absent"
isdir(r) == rootKind[r] \in {"dir", "rodir"}
ExtIsDir(e) == extKind[e] \in {"dir", "rodir"}

\* _storedir(path): path/.osc; the directory it resolves to (following the
\* symlink when the store is a link), "none" when there is no store.
storedir(path) == IF store[path] = "dir" THEN path ELSE store[path]

\* os.path.isdir(path/.osc): a directory, or a link that leads to one
StoreIsDir(path) ==
    \/ store[path] = "dir"
    \/ store[path] \in Exts /\ ExtIsDir(store[path])

\* _has_storedir(path)
has_storedir(path) == isdir(path) /\ StoreIsDir(path)

\* os.path.isfile / os.path.isdir of name inside store directory d, or inside
\* d/data when data is set.
IsFileIn(d, data, name) ==
    IF data
    THEN PKG_DATA \in subdirs[d] /\ name \in DOMAIN payload[d] /\ payload[d][name] = "file"
    ELSE name \in DOMAIN files[d]
IsDirIn(d, data, name) ==
    IF data
    THEN PKG_DATA \in subdirs[d] /\ name \in DOMAIN payload[d] /\ payload[d][name] = "dir"
    ELSE name \in subdirs[d]

(***************************************************************************)
(* Pure functions of the file system.                                      *)
(***************************************************************************)
\* A missing_storepaths that looks under the store itself whatever data says.
missing_storepaths_nodata(path, paths, dirs, data) ==
    IF ~has_storedir(path)
    THEN paths
    ELSE LET d == storedir(path)
             Missing(n) == IF dirs THEN ~IsDirIn(d, FALSE, n) ELSE ~IsFileIn(d, FALSE, n)
         IN  SelectSeq(paths, Missing)

\* A test that takes every path for a directory, whatever dirs says.
missing_storepaths_dirs(path, paths, dirs, data) ==
    IF ~has_storedir(path)
    THEN paths
    ELSE LET d == storedir(path)
             Missing(n) == ~IsDirIn(d, data, n)
         IN  SelectSeq(paths, Missing)

\* missing_storepaths(path, *paths, dirs=, data=)
missing_storepaths(path, paths, dirs, data) ==
    IF ~has_storedir(path)
    THEN paths
    ELSE LET d == storedir(path)
             Missing(n) == IF dirs THEN ~IsDirIn(d, data, n) ELSE ~IsFileIn(d, data, n)
         IN  SelectSeq(paths, Missing)

\* str.strip(): leading and trailing whitespace removed.
RECURSIVE lstrip(_)
lstrip(s) == IF s # << >> /\ Head(s) \in Whitespace THEN lstrip(Tail(s)) ELSE s
RECURSIVE rstrip(_)
rstrip(s) ==
    IF s # << >> /\ s[Len(s)] \in Whitespace THEN rstrip(SubSeq(s, 1, Len(s) - 1)) ELSE s
strip(s) == rstrip(lstrip(s))

\* What _write_storefile writes for data: a trailing newline when data is not empty.
Stored(data) == IF data # << >> THEN data \o <<"\n">> ELSE data

\* _read_storefile(path, filename), run without interruption.
read_storefile(path, filename) ==
    LET c == Call("read", path, filename, << >>, "")
    IN  IF missing_storepaths(path, <<filename>>, FALSE, FALSE) # << >>
        THEN Raised(c, NoValidStorefile)
        ELSE Returned(c, strip(files[storedir(path)][filename]))

ClassifierPaths == <<"_apiurl", "_project", "_package">>

\* A classifier that forgets to rule the package working copy out.
wc_is_project_nopkgtest(path) ==
    LET missing == missing_storepaths(path, ClassifierPaths, FALSE, FALSE)
    IN  Len(missing) <= 1 /\ \A i \in 1..Len(missing) : missing[i] = "_package"

\* wc_is_project(path)
wc_is_project(path) ==
    LET missing == missing_storepaths(path, ClassifierPaths, FALSE, FALSE)
    IN  IF missing = << >> THEN FALSE
        ELSE IF Len(missing) = 1 /\ \E i \in 1..Len(missing) : missing[i] = "_package" THEN TRUE
        ELSE FALSE

\* wc_is_package(path)
wc_is_package(path) == missing_storepaths(path, ClassifierPaths, FALSE, FALSE) = << >>

(***************************************************************************)
(* Calls of the functions that only look: the classifiers and              *)
(* missing_storepaths.  Each is one step that leaves its result.           *)
(***************************************************************************)
\* A call of missing_storepaths with its arguments.
MCall(path, paths, dirs, data) ==
    [op |-> "missing", path |-> path, name |-> "", data |-> << >>, ext |-> "",
     paths |-> paths, dirs |-> dirs, underData |-> data]

\* missing_storepaths(path, *paths, dirs=dirs, data=data) called
missing_call(p, path, paths, dirs, data) ==
    /\ pc[p] = "idle"
    /\ ret' = [ret EXCEPT ![p] = Returned(MCall(path, paths, dirs, data),
                                         missing_storepaths(path, paths, dirs, data))]
    /\ UNCHANGED <<envvars, fsvars, lockvars, pc, loc, hist>>

\* wc_is_project(path) called
is_project_call(p, path) ==
    /\ pc[p] = "idle"
    /\ ret' = [ret EXCEPT ![p] = Returned(Call("wc_is_project", path, "", << >>, ""),
                                         wc_is_project(path))]
    /\ UNCHANGED <<envvars, fsvars, lockvars, pc, loc, hist>>

\* A wc_is_package that raises as a read does when an entry is missing.
is_package_call_strict(p, path) ==
    /\ pc[p] = "idle"
    /\ ret' = [ret EXCEPT ![p] =
                 IF wc_is_package(path)
                 THEN Returned(Call("wc_is_package", path, "", << >>, ""), TRUE)
                 ELSE Raised(Call("wc_is_package", path, "", << >>, ""), NoValidStorefile)]
    /\ UNCHANGED <<envvars, fsvars, lockvars, pc, loc, hist>>

\* wc_is_package(path) called
is_package_call(p, path) ==
    /\ pc[p] = "idle"
    /\ ret' = [ret EXCEPT ![p] = Returned(Call("wc_is_package", path, "", << >>, ""),
                                         wc_is_package(path))]
    /\ UNCHANGED <<envvars, fsvars, lockvars, pc, loc, hist>>

(***************************************************************************)
(* WCLock: has_lock, lock, unlock.  One handle per process.                *)
(***************************************************************************)
has_lock(p) == fobj[p] # 0

InodesInUse == ({lockIno[d] : d \in Dirs} \cup {fd[p] : p \in Procs}) \ {0}
FreshIno == CHOOSE i \in Inodes \ InodesInUse : \A j \in Inodes \ InodesInUse : i <= j

\* A lock() without the test of has_lock: the handle that holds the lock goes
\* on to open and lock the lock file again.
lock_double_reopens(p) ==
    /\ pc[p] = "idle"
    /\ has_lock(p)
    /\ pc' = [pc EXCEPT ![p] = "lock_lockf"]
    /\ loc' = [loc EXCEPT ![p] = Locals(Call("lock", hpath[p], "", << >>, ""))]
    /\ ret' = [ret EXCEPT ![p] = NoRet]
    /\ UNCHANGED <<envvars, fsvars, lockvars, hist>>

\* lock(), line 67-70: a handle that holds the lock raises at once.
lock_double(p) ==
    /\ pc[p] = "idle"
    /\ has_lock(p)
    /\ ret' = [ret EXCEPT ![p] = Raised(Call("lock", hpath[p], "", << >>, ""), DoubleLock)]
    /\ UNCHANGED <<envvars, fsvars, lockvars, pc, loc, hist>>

\* A lock() that makes the store directory of a root directory that has
\* none, to have where to put its lock file.
lock_open_makes_store(p) ==
    /\ pc[p] = "idle"
    /\ ~has_lock(p)
    /\ IF StoreIsDir(hpath[p]) \/ (isdir(hpath[p]) /\ store[hpath[p]] = "none")
       THEN LET d == IF StoreIsDir(hpath[p]) THEN storedir(hpath[p]) ELSE hpath[p]
                i == IF lockIno[d] # 0 THEN lockIno[d] ELSE FreshIno
            IN  /\ lockIno' = [lockIno EXCEPT ![d] = i]
                /\ fd' = [fd EXCEPT ![p] = i]
                /\ store' = [store EXCEPT ![hpath[p]] = IF @ = "none" THEN "dir" ELSE @]
                /\ pc' = [pc EXCEPT ![p] = "lock_lockf"]
                /\ loc' = [loc EXCEPT ![p] = Locals(Call("lock", hpath[p], "", << >>, ""))]
                /\ ret' = [ret EXCEPT ![p] = NoRet]
                /\ UNCHANGED hist
       ELSE /\ ret' = [ret EXCEPT ![p] = Raised(Call("lock", hpath[p], "", << >>, ""), <<"IOError", "ENOENT">>)]
            /\ hist' = [hist EXCEPT !.refused = @ \cup {p}]
            /\ UNCHANGED <<lockIno, fd, pc, loc, store>>
    /\ UNCHANGED <<envvars, rootKind, extKind, files, subdirs, payload, inoLock, fobj, hpath, scope>>

\* lock(), line 72-73: open(path/.osc/wc.lock, 'w') opens the lock file that is
\* there, creates one when there is none, and fails when there is no store
\* directory to hold it.
lock_open(p) ==
    /\ pc[p] = "idle"
    /\ ~has_lock(p)
    /\ IF StoreIsDir(hpath[p])
       THEN LET d == storedir(hpath[p])
                i == IF lockIno[d] # 0 THEN lockIno[d] ELSE FreshIno
            IN  /\ lockIno' = [lockIno EXCEPT ![d] = i]
                /\ fd' = [fd EXCEPT ![p] = i]
                /\ pc' = [pc EXCEPT ![p] = "lock_lockf"]
                /\ loc' = [loc EXCEPT ![p] = Locals(Call("lock", hpath[p], "", << >>, ""))]
                /\ ret' = [ret EXCEPT ![p] = NoRet]
       ELSE /\ ret' = [ret EXCEPT ![p] = Raised(Call("lock", hpath[p], "", << >>, ""), <<"IOError", "ENOENT">>)]
            /\ UNCHANGED <<lockIno, fd, pc, loc>>
    /\ hist' = [hist EXCEPT !.refused = IF StoreIsDir(hpath[p]) THEN @ ELSE @ \cup {p}]
    /\ UNCHANGED <<envvars, fsvars, inoLock, fobj, hpath, scope>>

\* lock(), line 74-75: fcntl.lockf(f, LOCK_EX) waits until no other process
\* holds a lock on the inode f is open on, takes it, and the handle keeps f.
lock_lockf(p) ==
    /\ pc[p] = "lock_lockf"
    /\ inoLock[fd[p]] \in {0, p}
    /\ inoLock' = [inoLock EXCEPT ![fd[p]] = p]
    /\ fobj' = [fobj EXCEPT ![p] = fd[p]]
    /\ pc' = [pc EXCEPT ![p] = "idle"]
    /\ loc' = [loc EXCEPT ![p] = NoLoc]
    /\ ret' = [ret EXCEPT ![p] = Returned(loc[p].call, << >>)]
    /\ UNCHANGED <<envvars, fsvars, lockIno, fd, hpath, scope, hist>>

\* An unlock() that removes the lock file before it raises for a handle that
\* holds no lock.
unlock_unacquired_unlinks(p) ==
    /\ pc[p] = "idle"
    /\ ~has_lock(p)
    /\ lockIno' = [lockIno EXCEPT ![storedir(hpath[p])] = 0]
    /\ ret' = [ret EXCEPT ![p] = Raised(Call("unlock", hpath[p], "", << >>, ""), UnacquiredLockRelease)]
    /\ UNCHANGED <<envvars, fsvars, inoLock, fd, fobj, hpath, scope, pc, loc, hist>>

\* unlock(), line 84-85: a handle that holds no lock raises at once.
unlock_unacquired(p) ==
    /\ pc[p] = "idle"
    /\ ~has_lock(p)
    /\ ret' = [ret EXCEPT ![p] = Raised(Call("unlock", hpath[p], "", << >>, ""), UnacquiredLockRelease)]
    /\ UNCHANGED <<envvars, fsvars, lockvars, pc, loc, hist>>

\* unlock(), line 86: fcntl.lockf(self._fobj, LOCK_UN)
unlock_lockf(p) ==
    /\ pc[p] = "idle"
    /\ has_lock(p)
    /\ inoLock' = [inoLock EXCEPT ![fobj[p]] = 0]
    /\ pc' = [pc EXCEPT ![p] = "unlock_close"]
    /\ loc' = [loc EXCEPT ![p] = Locals(Call("unlock", hpath[p], "", << >>, ""))]
    /\ ret' = [ret EXCEPT ![p] = NoRet]
    /\ UNCHANGED <<envvars, fsvars, lockIno, fd, fobj, hpath, scope, hist>>

\* An unlock() that closes the file and keeps it in _fobj.
unlock_close_keeps_fobj(p) ==
    /\ pc[p] = "unlock_close"
    /\ fd' = [fd EXCEPT ![p] = 0]
    /\ pc' = [pc EXCEPT ![p] = "unlock_unlink"]
    /\ UNCHANGED <<envvars, fsvars, lockIno, inoLock, fobj, hpath, scope, loc, ret, hist>>

\* unlock(), line 87-88: self._fobj.close(); self._fobj = None
unlock_close(p) ==
    /\ pc[p] = "unlock_close"
    /\ fd' = [fd EXCEPT ![p] = 0]
    /\ fobj' = [fobj EXCEPT ![p] = 0]
    /\ pc' = [pc EXCEPT ![p] = "unlock_unlink"]
    /\ UNCHANGED <<envvars, fsvars, lockIno, inoLock, hpath, scope, loc, ret, hist>>

\* unlock(), line 90-91: os.unlink(path/.osc/wc.lock) removes whatever lock file
\* is linked there now, and raises when there is none.
unlock_unlink(p) ==
    /\ pc[p] = "unlock_unlink"
    /\ LET d == storedir(loc[p].call.path)
       IN  IF lockIno[d] # 0
           THEN /\ lockIno' = [lockIno EXCEPT ![d] = 0]
                /\ ret' = [ret EXCEPT ![p] = Returned(loc[p].call, << >>)]
                /\ hist' = [hist EXCEPT !.released = @ \cup {p}]
           ELSE /\ ret' = [ret EXCEPT ![p] = Raised(loc[p].call, OSErr("ENOENT"))]
                /\ UNCHANGED <<lockIno, hist>>
    /\ pc' = [pc EXCEPT ![p] = "idle"]
    /\ loc' = [loc EXCEPT ![p] = NoLoc]
    /\ UNCHANGED <<envvars, fsvars, inoLock, fd, fobj, hpath, scope>>

(***************************************************************************)
(* with wc_lock(path): body -- __enter__ calls lock(), __exit__ calls       *)
(* unlock() and returns False.  The lock() and unlock() it calls are the    *)
(* steps above.                                                             *)
(***************************************************************************)
\* wc_lock(path) makes a new handle, which holds no lock, and the with
\* statement calls its __enter__.
with_enter(p) ==
    /\ pc[p] = "idle"
    /\ scope[p] = "out"
    /\ ~has_lock(p)
    /\ scope' = [scope EXCEPT ![p] = "enter"]
    /\ ret' = [ret EXCEPT ![p] = NoRet]
    /\ UNCHANGED <<envvars, fsvars, lockIno, inoLock, fd, fobj, hpath, pc, loc, hist>>

\* line 94-95: lock() has ended.  When it raised, the exception leaves the
\* with statement and the body does not run; when it returned, the body runs
\* and returns or raises, and the with statement calls __exit__ then.
with_body(p, raises) ==
    /\ pc[p] = "idle"
    /\ scope[p] = "enter"
    /\ ret[p].call.op = "lock"
    /\ scope' = [scope EXCEPT ![p] =
                   IF ret[p].kind = "raise" THEN "out"
                   ELSE IF raises THEN "exit_exc" ELSE "exit"]
    /\ UNCHANGED <<envvars, fsvars, lockIno, inoLock, fd, fobj, hpath, pc, loc, ret, hist>>

\* line 98-100: unlock() has ended.  An exception of unlock() leaves
\* __exit__ and the with statement in place of whatever the body raised;
\* else __exit__ returns False and the exception of the body, if any, goes on.
with_leave(p) ==
    /\ pc[p] = "idle"
    /\ scope[p] \in {"exit", "exit_exc"}
    /\ ret[p].call.op = "unlock"
    /\ scope' = [scope EXCEPT ![p] = "out"]
    /\ LET c == Call("with", hpath[p], "", << >>, "")
       IN  ret' = [ret EXCEPT ![p] =
                     IF ret[p].kind = "raise" THEN Raised(c, ret[p].val)
                     ELSE IF scope[p] = "exit_exc" THEN Raised(c, BodyException)
                     ELSE Returned(c, << >>)]
    /\ UNCHANGED <<envvars, fsvars, lockIno, inoLock, fd, fobj, hpath, pc, loc, hist>>

\* A process exit after which the lock of the dead process stays on the file.
crash_keeps_lock(p) ==
    /\ pc[p] # "crashed"
    /\ pc' = [pc EXCEPT ![p] = "crashed"]
    /\ fd' = [fd EXCEPT ![p] = 0]
    /\ fobj' = [fobj EXCEPT ![p] = 0]
    /\ loc' = [loc EXCEPT ![p] = NoLoc]
    /\ ret' = [ret EXCEPT ![p] = NoRet]
    /\ scope' = [scope EXCEPT ![p] = "out"]
    /\ UNCHANGED <<envvars, fsvars, lockIno, inoLock, hpath, hist>>

\* Process exit without cleanup (kill, power loss): no finally block runs, the
\* OS closes the process's descriptors and drops its fcntl locks.
crash(p) ==
    /\ pc[p] # "crashed"
    /\ pc' = [pc EXCEPT ![p] = "crashed"]
    /\ fd' = [fd EXCEPT ![p] = 0]
    /\ fobj' = [fobj EXCEPT ![p] = 0]
    /\ inoLock' = [i \in Inodes |-> IF inoLock[i] = p THEN 0 ELSE inoLock[i]]
    /\ loc' = [loc EXCEPT ![p] = NoLoc]
    /\ ret' = [ret EXCEPT ![p] = NoRet]
    /\ scope' = [scope EXCEPT ![p] = "out"]
    /\ UNCHANGED <<envvars, fsvars, lockIno, hpath, hist>>

(***************************************************************************)
(* _read_storefile, step by step.                                          *)
(***************************************************************************)
\* A read that makes an empty entry when the store has none of that name.
read_check_creates(p, path, filename) ==
    /\ pc[p] = "idle"
    /\ LET c == Call("read", path, filename, << >>, "")
           d == storedir(path)
       IN  IF ~has_storedir(path) \/ filename \in subdirs[d]
           THEN /\ ret' = [ret EXCEPT ![p] = Raised(c, NoValidStorefile)]
                /\ UNCHANGED <<pc, loc, files>>
           ELSE IF filename \notin DOMAIN files[d]
           THEN /\ files' = [files EXCEPT ![d] = [n \in DOMAIN @ \cup {filename} |->
                                                    IF n = filename THEN << >> ELSE @[n]]]
                /\ ret' = [ret EXCEPT ![p] = Returned(c, << >>)]
                /\ UNCHANGED <<pc, loc>>
           ELSE /\ pc' = [pc EXCEPT ![p] = "read_open"]
                /\ loc' = [loc EXCEPT ![p] = Locals(c)]
                /\ ret' = [ret EXCEPT ![p] = NoRet]
                /\ UNCHANGED files
    /\ UNCHANGED <<envvars, rootKind, extKind, store, subdirs, payload, lockvars, hist>>

\* line 157-160: the missing_storepaths test
read_check(p, path, filename) ==
    /\ pc[p] = "idle"
    /\ LET c == Call("read", path, filename, << >>, "")
       IN  IF missing_storepaths(path, <<filename>>, FALSE, FALSE) # << >>
           THEN /\ ret' = [ret EXCEPT ![p] = Raised(c, NoValidStorefile)]
                /\ UNCHANGED <<pc, loc>>
           ELSE /\ pc' = [pc EXCEPT ![p] = "read_open"]
                /\ loc' = [loc EXCEPT ![p] = Locals(c)]
                /\ ret' = [ret EXCEPT ![p] = NoRet]
    /\ UNCHANGED <<envvars, fsvars, lockvars, hist>>

\* line 161-163: open(storefile, 'r') and f.read().strip().  The file found
\* by open() is not written to any more (its writer closed it before it got
\* this name), so read() returns the content open() found.
read_open(p) ==
    /\ pc[p] = "read_open"
    /\ LET c == loc[p].call
           d == storedir(c.path)
       IN  ret' = [ret EXCEPT ![p] =
                     IF c.name \in DOMAIN files[d]
                     THEN Returned(c, strip(files[d][c.name]))
                     ELSE Raised(c, <<"IOError", "ENOENT">>)]
    /\ pc' = [pc EXCEPT ![p] = "idle"]
    /\ loc' = [loc EXCEPT ![p] = NoLoc]
    /\ UNCHANGED <<envvars, fsvars, lockvars, hist>>

(***************************************************************************)
(* _write_storefile, step by step.                                         *)
(***************************************************************************)
PutFile(fs, name, content) ==
    [n \in DOMAIN fs \cup {name} |-> IF n = name THEN content ELSE fs[n]]
DelFile(fs, name) == [n \in DOMAIN fs \ {name} |-> fs[n]]

\* The names process p has free in directory d, by their numbers, and the
\* first of them.
FreeTmp(d, p) == {k \in 1..MaxTmp : TmpName(p, k) \notin DOMAIN files[d]}
FreshTmp(d, p) == TmpName(p, CHOOSE k \in FreeTmp(d, p) : \A j \in FreeTmp(d, p) : k <= j)

\* A write that makes the store directory of a root that has none.
write_begin_makes_store(p, path, filename, data) ==
    /\ pc[p] = "idle"
    /\ has_storedir(path) => FreeTmp(storedir(path), p) # {}
    /\ LET c == Call("write", path, filename, data, "")
       IN  IF ~isdir(path) \/ (store[path] # "none" /\ ~has_storedir(path))
           THEN /\ ret' = [ret EXCEPT ![p] = Raised(c, NoStoredir)]
                /\ UNCHANGED <<pc, loc, store>>
           ELSE /\ pc' = [pc EXCEPT ![p] = "write_tmp"]
                /\ loc' = [loc EXCEPT ![p] = Locals(c)]
                /\ ret' = [ret EXCEPT ![p] = NoRet]
                /\ store' = [store EXCEPT ![path] = IF @ = "none" THEN "dir" ELSE @]
    /\ hist' = [hist EXCEPT !.written = IF isdir(path) THEN @ \cup {path} ELSE @]
    /\ UNCHANGED <<envvars, rootKind, extKind, files, subdirs, payload, lockvars>>


\* line 175-178: the _has_storedir test.  A write is started while one of the
\* MaxTmp names of the process is free in the store directory.
write_begin(p, path, filename, data) ==
    /\ pc[p] = "idle"
    /\ has_storedir(path) => FreeTmp(storedir(path), p) # {}
    /\ LET c == Call("write", path, filename, data, "")
       IN  IF ~has_storedir(path)
           THEN /\ ret' = [ret EXCEPT ![p] = Raised(c, NoStoredir)]
                /\ UNCHANGED <<pc, loc>>
           ELSE /\ pc' = [pc EXCEPT ![p] = "write_tmp"]
                /\ loc' = [loc EXCEPT ![p] = Locals(c)]
                /\ ret' = [ret EXCEPT ![p] = NoRet]
    /\ hist' = [hist EXCEPT !.written = IF has_storedir(path) THEN @ \cup {path} ELSE @]
    /\ UNCHANGED <<envvars, fsvars, lockvars>>

\* A writer that opens the target itself for writing instead of a temporary file.
write_tmp_inplace(p) ==
    /\ pc[p] = "write_tmp"
    /\ LET d == storedir(loc[p].call.path)
       IN  files' = [files EXCEPT ![d] = PutFile(@, loc[p].call.name, << >>)]
    /\ loc' = [loc EXCEPT ![p].tmp = loc[p].call.name]
    /\ pc' = [pc EXCEPT ![p] = "write_data"]
    /\ UNCHANGED <<envvars, rootKind, extKind, store, subdirs, payload, lockvars, ret, hist>>

\* line 180: tmpfile = NamedTemporaryFile(dir=_storedir(path), delete=False):
\* a new empty file under a name no file of the directory has; what earlier
\* writes left there stays.
write_tmp(p) ==
    /\ pc[p] = "write_tmp"
    /\ LET d == storedir(loc[p].call.path)
       IN  /\ FreeTmp(d, p) # {}
           /\ files' = [files EXCEPT ![d] = PutFile(@, FreshTmp(d, p), << >>)]
           /\ loc' = [loc EXCEPT ![p].tmp = FreshTmp(d, p)]
    /\ pc' = [pc EXCEPT ![p] = "write_data"]
    /\ UNCHANGED <<envvars, rootKind, extKind, store, subdirs, payload, lockvars, ret, hist>>

\* line 180 raising (no space, no permission): tmpfile stays None, the finally
\* block does nothing and the error reaches the caller.
write_tmp_fail(p) ==
    /\ pc[p] = "write_tmp"
    /\ ret' = [ret EXCEPT ![p] = Raised(loc[p].call, OSErr("ENOSPC"))]
    /\ pc' = [pc EXCEPT ![p] = "idle"]
    /\ loc' = [loc EXCEPT ![p] = NoLoc]
    /\ hist' = [hist EXCEPT !.failed = TRUE]
    /\ UNCHANGED <<envvars, fsvars, lockvars>>

\* A writer whose data goes to the target at once as well as to the
\* temporary file.
write_data_target(p) ==
    /\ pc[p] = "write_data"
    /\ LET d == storedir(loc[p].call.path)
       IN  files' = [files EXCEPT ![d] = PutFile(@, loc[p].call.name, loc[p].call.data)]
    /\ loc' = [loc EXCEPT ![p].buf = loc[p].call.data]
    /\ pc' = [pc EXCEPT ![p] = "write_nl"]
    /\ UNCHANGED <<envvars, rootKind, extKind, store, subdirs, payload, lockvars, ret, hist>>

\* line 181: tmpfile.write(data).  The temporary file is opened in binary
\* mode ('w+b').  Under Python 2 a str is a byte string and write() takes it:
\* the data, shorter than the buffer of the file object (every value of the
\* model is), stays in the buffer of the process and the file on disk stays
\* empty.  Under Python 3 write() refuses a str with a TypeError before
\* taking anything, and the finally block runs with the error pending.
write_data(p) ==
    /\ pc[p] = "write_data"
    /\ IF py = 2
       THEN /\ loc' = [loc EXCEPT ![p].buf = loc[p].call.data]
            /\ pc' = [pc EXCEPT ![p] = "write_nl"]
            /\ UNCHANGED hist
       ELSE /\ loc' = [loc EXCEPT ![p].exc = TypeErrorBytes]
            /\ pc' = [pc EXCEPT ![p] = "write_close"]
            /\ hist' = [hist EXCEPT !.failed = TRUE]
    /\ UNCHANGED <<envvars, fsvars, lockvars, ret>>

\* line 182-183: if data: tmpfile.write('\n'): one more byte in the buffer.
write_nl(p) ==
    /\ pc[p] = "write_nl"
    /\ loc' = [loc EXCEPT ![p].buf = IF loc[p].call.data # << >> THEN @ \o <<"\n">> ELSE @]
    /\ pc' = [pc EXCEPT ![p] = "write_close"]
    /\ UNCHANGED <<envvars, fsvars, lockvars, ret, hist>>

\* line 184-186: the finally block, run whether or not an exception is
\* pending: tmpfile.close() writes the buffer to the temporary file.
write_close(p) ==
    /\ pc[p] = "write_close"
    /\ LET d == storedir(loc[p].call.path)
       IN  files' = [files EXCEPT ![d] = PutFile(@, loc[p].tmp, loc[p].buf)]
    /\ loc' = [loc EXCEPT ![p].buf = << >>]
    /\ pc' = [pc EXCEPT ![p] = "write_rename"]
    /\ UNCHANGED <<envvars, rootKind, extKind, store, subdirs, payload, lockvars, ret, hist>>

\* A finally block that cleans up after a close that failed: it removes the
\* temporary file and the target with it.
write_close_fail_drops_target(p) ==
    /\ pc[p] = "write_close"
    /\ loc[p].buf # << >>
    /\ LET d == storedir(loc[p].call.path)
       IN  files' = [files EXCEPT ![d] = DelFile(DelFile(@, loc[p].tmp), loc[p].call.name)]
    /\ ret' = [ret EXCEPT ![p] = Raised(loc[p].call, <<"IOError", "ENOSPC">>)]
    /\ pc' = [pc EXCEPT ![p] = "idle"]
    /\ loc' = [loc EXCEPT ![p] = NoLoc]
    /\ hist' = [hist EXCEPT !.failed = TRUE]
    /\ UNCHANGED <<envvars, rootKind, extKind, store, subdirs, payload, lockvars>>

\* line 186 raising an I/O error (disk full) after a proper prefix of the
\* buffer has reached the temporary file: the error leaves the finally block,
\* os.rename is not run and the temporary file stays in the store directory.
write_close_fail(p) ==
    /\ pc[p] = "write_close"
    /\ loc[p].buf # << >>
    /\ \E k \in 0..(Len(loc[p].buf) - 1) :
          LET d == storedir(loc[p].call.path)
          IN  files' = [files EXCEPT ![d] = PutFile(@, loc[p].tmp, SubSeq(loc[p].buf, 1, k))]
    /\ ret' = [ret EXCEPT ![p] = Raised(loc[p].call, <<"IOError", "ENOSPC">>)]
    /\ pc' = [pc EXCEPT ![p] = "idle"]
    /\ loc' = [loc EXCEPT ![p] = NoLoc]
    /\ hist' = [hist EXCEPT !.failed = TRUE]
    /\ UNCHANGED <<envvars, rootKind, extKind, store, subdirs, payload, lockvars>>

\* A rename that leaves the entry it wrote the only file of the store.
write_rename_alone(p) ==
    /\ pc[p] = "write_rename"
    /\ LET c == loc[p].call
           d == storedir(c.path)
       IN  IF c.name \in subdirs[d]
           THEN /\ ret' = [ret EXCEPT ![p] = Raised(c, OSErr("EISDIR"))]
                /\ hist' = [hist EXCEPT !.failed = TRUE]
                /\ UNCHANGED files
           ELSE /\ files' = [files EXCEPT ![d] = [n \in {c.name} |-> @[loc[p].tmp]]]
                /\ ret' = [ret EXCEPT ![p] =
                             IF loc[p].exc # NoExc THEN Raised(c, loc[p].exc)
                             ELSE Returned(c, << >>)]
                /\ UNCHANGED hist
    /\ pc' = [pc EXCEPT ![p] = "idle"]
    /\ loc' = [loc EXCEPT ![p] = NoLoc]
    /\ UNCHANGED <<envvars, rootKind, extKind, store, subdirs, payload, lockvars>>

\* line 187: os.rename(tmpfile.name, fname), the last statement of the
\* finally block; then the pending exception, if any, is raised again.  Onto
\* a directory the rename raises and the temporary file stays.
write_rename(p) ==
    /\ pc[p] = "write_rename"
    /\ LET c == loc[p].call
           d == storedir(c.path)
       IN  IF c.name \in subdirs[d]
           THEN /\ ret' = [ret EXCEPT ![p] = Raised(c, OSErr("EISDIR"))]
                /\ hist' = [hist EXCEPT !.failed = TRUE]
                /\ UNCHANGED files
           ELSE /\ files' = [files EXCEPT ![d] =
                               PutFile(DelFile(@, loc[p].tmp), c.name, @[loc[p].tmp])]
                /\ ret' = [ret EXCEPT ![p] =
                             IF loc[p].exc # NoExc THEN Raised(c, loc[p].exc)
                             ELSE Returned(c, << >>)]
                /\ UNCHANGED hist
    /\ pc' = [pc EXCEPT ![p] = "idle"]
    /\ loc' = [loc EXCEPT ![p] = NoLoc]
    /\ UNCHANGED <<envvars, rootKind, extKind, store, subdirs, payload, lockvars>>

(***************************************************************************)
(* wc_init, step by step.                                                  *)
(***************************************************************************)
\* os.path.exists(path/.osc): follows the symlink
StoreExists(path) ==
    /\ isdir(path)
    /\ \/ store[path] = "dir"
       \/ store[path] \in Exts /\ extKind[store[path]] # "absent"

\* An init that tests ext_storedir last, after the store and the path.
init_check_extlast(p, path, ext) ==
    /\ pc[p] = "idle"
    /\ LET c == Call("init", path, "", << >>, ext)
       IN  IF StoreExists(path)
           THEN /\ ret' = [ret EXCEPT ![p] = Raised(c, AlreadyAWorkingCopy)]
                /\ UNCHANGED <<pc, loc>>
           ELSE IF exists(path) /\ ~isdir(path)
           THEN /\ ret' = [ret EXCEPT ![p] = Raised(c, RootNoDir)]
                /\ UNCHANGED <<pc, loc>>
           ELSE IF ext # "" /\ extKind[ext] # "dir"
           THEN /\ ret' = [ret EXCEPT ![p] = Raised(c, InvalidExternalStore)]
                /\ UNCHANGED <<pc, loc>>
           ELSE /\ pc' = [pc EXCEPT ![p] = IF exists(path) THEN "init_access" ELSE "init_makedirs"]
                /\ loc' = [loc EXCEPT ![p] = Locals(c)]
                /\ ret' = [ret EXCEPT ![p] = NoRet]
    /\ UNCHANGED <<envvars, fsvars, lockvars, hist>>

\* An init that does not test whether path/.osc exists.
init_check_nostoretest(p, path, ext) ==
    /\ pc[p] = "idle"
    /\ LET c == Call("init", path, "", << >>, ext)
       IN  IF ext # "" /\ extKind[ext] # "dir"
           THEN /\ ret' = [ret EXCEPT ![p] = Raised(c, InvalidExternalStore)]
                /\ UNCHANGED <<pc, loc>>
           ELSE IF exists(path) /\ ~isdir(path)
           THEN /\ ret' = [ret EXCEPT ![p] = Raised(c, RootNoDir)]
                /\ UNCHANGED <<pc, loc>>
           ELSE /\ pc' = [pc EXCEPT ![p] = IF exists(path) THEN "init_access" ELSE "init_makedirs"]
                /\ loc' = [loc EXCEPT ![p] = Locals(c)]
                /\ ret' = [ret EXCEPT ![p] = NoRet]
    /\ UNCHANGED <<envvars, fsvars, lockvars, hist>>

\* line 328-339: the tests on ext_storedir, on the store and on path
init_check(p, path, ext) ==
    /\ pc[p] = "idle"
    /\ LET c == Call("init", path, "", << >>, ext)
       IN  IF ext # "" /\ extKind[ext] # "dir"
           THEN /\ ret' = [ret EXCEPT ![p] = Raised(c, InvalidExternalStore)]
                /\ UNCHANGED <<pc, loc>>
           ELSE IF StoreExists(path)
           THEN /\ ret' = [ret EXCEPT ![p] = Raised(c, AlreadyAWorkingCopy)]
                /\ UNCHANGED <<pc, loc>>
           ELSE IF exists(path) /\ ~isdir(path)
           THEN /\ ret' = [ret EXCEPT ![p] = Raised(c, RootNoDir)]
                /\ UNCHANGED <<pc, loc>>
           ELSE /\ pc' = [pc EXCEPT ![p] = IF exists(path) THEN "init_access" ELSE "init_makedirs"]
                /\ loc' = [loc EXCEPT ![p] = Locals(c)]
                /\ ret' = [ret EXCEPT ![p] = NoRet]
    /\ UNCHANGED <<envvars, fsvars, lockvars, hist>>

\* line 340-341: os.makedirs(path)
init_makedirs(p) ==
    /\ pc[p] = "init_makedirs"
    /\ LET c == loc[p].call
       IN  IF rootKind[c.path] = "absent"
           THEN /\ rootKind' = [rootKind EXCEPT ![c.path] = "dir"]
                /\ pc' = [pc EXCEPT ![p] = "init_access"]
                /\ UNCHANGED <<loc, ret>>
           ELSE /\ ret' = [ret EXCEPT ![p] = Raised(c, OSErr("EEXIST"))]
                /\ pc' = [pc EXCEPT ![p] = "idle"]
                /\ loc' = [loc EXCEPT ![p] = NoLoc]
                /\ UNCHANGED rootKind
    /\ UNCHANGED <<envvars, extKind, store, files, subdirs, payload, lockvars, hist>>

\* The errors os.makedirs is made to raise.
MakedirsErrnos == {"EACCES", "ENOSPC"}

\* An init that raises every OSError of os.makedirs again as it is.
init_makedirs_fail_raw(p, errno) ==
    /\ pc[p] = "init_makedirs"
    /\ ret' = [ret EXCEPT ![p] = Raised(loc[p].call, OSErr(errno))]
    /\ pc' = [pc EXCEPT ![p] = "idle"]
    /\ loc' = [loc EXCEPT ![p] = NoLoc]
    /\ UNCHANGED <<envvars, fsvars, lockvars, hist>>

\* line 342-345: os.makedirs raising: EACCES becomes a ValueError, any other
\* OSError is raised again.
init_makedirs_fail(p, errno) ==
    /\ pc[p] = "init_makedirs"
    /\ ret' = [ret EXCEPT ![p] =
                 IF errno # "EACCES" THEN Raised(loc[p].call, OSErr(errno))
                 ELSE Raised(loc[p].call, PermissionDenied)]
    /\ pc' = [pc EXCEPT ![p] = "idle"]
    /\ loc' = [loc EXCEPT ![p] = NoLoc]
    /\ UNCHANGED <<envvars, fsvars, lockvars, hist>>

\* line 346-348: os.access(path, os.W_OK)
init_access(p) ==
    /\ pc[p] = "init_access"
    /\ IF rootKind[loc[p].call.path] # "dir"
       THEN /\ ret' = [ret EXCEPT ![p] = Raised(loc[p].call, StoreNotCreatable)]
            /\ pc' = [pc EXCEPT ![p] = "idle"]
            /\ loc' = [loc EXCEPT ![p] = NoLoc]
       ELSE /\ pc' = [pc EXCEPT ![p] = "init_store"]
            /\ UNCHANGED <<loc, ret>>
    /\ UNCHANGED <<envvars, fsvars, lockvars, hist>>

\* An init that makes path/.osc a directory of its own whatever ext_storedir is.
init_store_owndir(p) ==
    /\ pc[p] = "init_store"
    /\ LET c == loc[p].call
       IN  IF store[c.path] # "none"
           THEN /\ ret' = [ret EXCEPT ![p] = Raised(c, OSErr("EEXIST"))]
                /\ pc' = [pc EXCEPT ![p] = "idle"]
                /\ loc' = [loc EXCEPT ![p] = NoLoc]
                /\ UNCHANGED store
           ELSE /\ store' = [store EXCEPT ![c.path] = "dir"]
                /\ pc' = [pc EXCEPT ![p] = "init_data"]
                /\ UNCHANGED <<loc, ret>>
    /\ UNCHANGED <<envvars, rootKind, extKind, files, subdirs, payload, lockvars, hist>>

\* line 349-352: os.symlink(ext_storedir, storedir) or os.mkdir(storedir);
\* both raise when path/.osc exists by now.
init_store(p) ==
    /\ pc[p] = "init_store"
    /\ LET c == loc[p].call
       IN  IF store[c.path] # "none"
           THEN /\ ret' = [ret EXCEPT ![p] = Raised(c, OSErr("EEXIST"))]
                /\ pc' = [pc EXCEPT ![p] = "idle"]
                /\ loc' = [loc EXCEPT ![p] = NoLoc]
                /\ UNCHANGED store
           ELSE /\ store' = [store EXCEPT ![c.path] = IF c.ext # "" THEN c.ext ELSE "dir"]
                /\ pc' = [pc EXCEPT ![p] = "init_data"]
                /\ UNCHANGED <<loc, ret>>
    /\ UNCHANGED <<envvars, rootKind, extKind, files, subdirs, payload, lockvars, hist>>

\* An init that goes on to write an _apiurl entry into the new store.
init_data_writes_entry(p) ==
    /\ pc[p] = "init_data"
    /\ LET c == loc[p].call
           d == storedir(c.path)
       IN  IF PKG_DATA \in subdirs[d] \/ PKG_DATA \in DOMAIN files[d]
           THEN /\ ret' = [ret EXCEPT ![p] = Raised(c, OSErr("EEXIST"))]
                /\ UNCHANGED <<subdirs, files, hist>>
           ELSE /\ subdirs' = [subdirs EXCEPT ![d] = @ \cup {PKG_DATA}]
                /\ files' = [files EXCEPT ![d] = PutFile(@, "_apiurl", << >>)]
                /\ ret' = [ret EXCEPT ![p] = Returned(c, << >>)]
                /\ hist' = [hist EXCEPT !.inited = @ \cup {c.path}]
    /\ pc' = [pc EXCEPT ![p] = "idle"]
    /\ loc' = [loc EXCEPT ![p] = NoLoc]
    /\ UNCHANGED <<envvars, rootKind, extKind, store, payload, lockvars>>

\* line 353-355: os.mkdir(path/.osc/data), which raises when it is there
init_data(p) ==
    /\ pc[p] = "init_data"
    /\ LET c == loc[p].call
           d == storedir(c.path)
       IN  IF PKG_DATA \in subdirs[d] \/ PKG_DATA \in DOMAIN files[d]
           THEN /\ ret' = [ret EXCEPT ![p] = Raised(c, OSErr("EEXIST"))]
                /\ UNCHANGED subdirs
                /\ UNCHANGED hist
           ELSE /\ subdirs' = [subdirs EXCEPT ![d] = @ \cup {PKG_DATA}]
                /\ ret' = [ret EXCEPT ![p] = Returned(c, << >>)]
                /\ hist' = [hist EXCEPT !.inited = @ \cup {c.path}]
    /\ pc' = [pc EXCEPT ![p] = "idle"]
    /\ loc' = [loc EXCEPT ![p] = NoLoc]
    /\ UNCHANGED <<envvars, rootKind, extKind, store, files, payload, lockvars>>

\* A process between a returned acquire and the start of its release.
Holds(p) == has_lock(p) /\ pc[p] = "idle"

(***************************************************************************)
(* Initial states.                                                         *)
(***************************************************************************)
NoFiles == [n \in {} |-> << >>]

\* Every process idle with a handle on the root h gives it (WCLock.__init__:
\* _path = path, _fobj = None), outside any with statement, and no lock file.
InitProcsAt(h) ==
    /\ lockIno = [d \in Dirs |-> 0]
    /\ inoLock = [i \in Inodes |-> 0]
    /\ fd = [p \in Procs |-> 0]
    /\ fobj = [p \in Procs |-> 0]
    /\ hpath = h
    /\ scope = [p \in Procs |-> "out"]
    /\ pc = [p \in Procs |-> "idle"]
    /\ loc = [p \in Procs |-> NoLoc]
    /\ ret = [p \in Procs |-> NoRet]
    /\ hist = [failed |-> FALSE, inited |-> {}, written |-> {}, released |-> {}, refused |-> {}]

\* The same with every handle on r1.
InitProcs == InitProcsAt([p \in Procs |-> "r1"])

\* The roots are directories, r1 is a working copy with a store directory of
\* its own holding entries0, r2 is no working copy, the external directories
\* are empty.
InitWC(entries0) ==
    /\ rootKind = [r \in Roots |-> "dir"]
    /\ extKind = [e \in Exts |-> "dir"]
    /\ store = [r \in Roots |-> IF r = "r1" THEN "dir" ELSE "none"]
    /\ files = [d \in Dirs |-> IF d = "r1" THEN entries0 ELSE NoFiles]
    /\ subdirs = [d \in Dirs |-> IF d = "r1" THEN {PKG_DATA} ELSE {}]
    /\ payload = [d \in Dirs |-> NoFiles]

NoInputs == [roots |-> {}, exts |-> {}, names |-> {}, values |-> {}, old |-> {}]

(***************************************************************************)
(* The lock alone: every process acquires and releases the lock of r1.     *)
(***************************************************************************)
InitLock ==
    /\ py \in {2, 3}
    /\ inputs = NoInputs
    /\ InitWC(NoFiles)
    /\ InitProcs

NextLock ==
    \E p \in Procs :
        \/ lock_double(p)
        \/ lock_open(p)
        \/ lock_lockf(p)
        \/ unlock_unacquired(p)
        \/ unlock_lockf(p)
        \/ unlock_close(p)
        \/ unlock_unlink(p)

SpecLock == InitLock /\ [][NextLock]_vars

\* C1: mutual exclusion of the working-copy lock: at most one process is
\* between a returned acquire and the start of its release.
C1_MutualExclusion == Cardinality({p \in Procs : Holds(p)}) <= 1

(***************************************************************************)
(* One entry of r1 written and read by concurrent processes, with write    *)
(* errors and crashes.  A writer writes again and again until a write of   *)
(* its leaves a temporary file behind.                                     *)
(***************************************************************************)
\* The content committed before, and the content each writer writes: no one
\* is a prefix of another, so that a partial content is none of them.
Old == <<"a", "a">>
New(p) == CASE p = 1 -> <<"a", "b">> [] p = 2 -> <<"b", "a">> [] OTHER -> <<"b", "b">>

InitIO ==
    /\ py \in {2, 3}
    /\ \E old \in {{}, {Stored(Old)}} :
          /\ inputs = [roots |-> {"r1"}, exts |-> {}, names |-> {"_apiurl"},
                       values |-> {New(p) : p \in Writers}, old |-> old]
          /\ InitWC([n \in {m \in {"_apiurl"} : old # {}} |-> Stored(Old)])
    /\ InitProcs

NextIO ==
    \/ \E path \in inputs.roots, n \in inputs.names : read_check(Reader, path, n)
    \/ read_open(Reader)
    \/ \E p \in Writers :
        \/ \E path \in inputs.roots, n \in inputs.names :
              /\ \A t \in TmpNames(p) : t \notin DOMAIN files[storedir(path)]
              /\ write_begin(p, path, n, New(p))
        \/ write_tmp(p)
        \/ write_tmp_fail(p)
        \/ write_data(p)
        \/ write_nl(p)
        \/ write_close(p)
        \/ write_close_fail(p)
        \/ write_rename(p)
        \/ crash(p)

SpecIO == InitIO /\ [][NextIO]_vars

\* The entry written and read in SpecIO, and what is stored under its name.
IOPath == "r1"
IOName == "_apiurl"
EntryAt(path, name) ==
    IF StoreIsDir(path) /\ name \in DOMAIN files[storedir(path)]
    THEN <<files[storedir(path)][name]>>
    ELSE << >>
Complete == inputs.old \cup {Stored(v) : v \in inputs.values}

\* C2: no torn reads.  While no write has failed, the entry holds the content
\* committed before or the complete content of one of the writes, a read
\* returns one of them stripped, and a read of an entry that was there from
\* the start does not raise.
C2_NoTornReads ==
    ~hist.failed =>
        /\ \A i \in 1..Len(EntryAt(IOPath, IOName)) : EntryAt(IOPath, IOName)[i] \in Complete
        /\ ret[Reader].kind = "ok" => ret[Reader].val \in {strip(c) : c \in Complete}
        /\ inputs.old # {} => ret[Reader].kind # "raise"

\* A read that returned the content of writer 1 while writer 2 is in the
\* middle of its write, with no write failed.
C2_Witness ==
    /\ ~hist.failed
    /\ ret[Reader].kind = "ok" /\ ret[Reader].val = New(1)
    /\ pc[2] = "write_rename"
    /\ inputs.old # {}

\* The positions of a writer before os.rename has run.
BeforeRename == {"write_tmp", "write_data", "write_nl", "write_close", "write_rename"}

\* A step of writer p with an error of its write pending, or one that ends
\* its write with an error.
FailedStep(p) ==
    /\ pc[p] \in BeforeRename /\ pc'[p] # pc[p]
    /\ loc[p].exc # NoExc \/ (pc'[p] = "idle" /\ ret'[p].kind = "raise")

\* C3: a write of which a step before the rename failed leaves the target
\* untouched: no step the writer takes with the error pending, and none that
\* ends the write with the error, changes what is stored under the target's
\* name.
C3_FailedWriteLeavesTarget ==
    [][\A p \in Writers :
          FailedStep(p) => EntryAt(IOPath, IOName)' = EntryAt(IOPath, IOName)]_vars

\* The same under Python 2 alone, where an error shows when the temporary
\* file is made or closed and os.rename is not reached.
FailedWriteLeavesTargetPy2 ==
    [][\A p \in Writers :
          (py = 2 /\ FailedStep(p)) => EntryAt(IOPath, IOName)' = EntryAt(IOPath, IOName)]_vars

\* C4: a writer interrupted before the rename leaves the committed content
\* unchanged on the next read: no step a writer takes before its rename, its
\* crash included, changes what a read of the entry returns (the committed
\* content, or the error when none was committed).
C4_CrashBeforeRename ==
    [][\A p \in Writers :
          (pc[p] \in BeforeRename /\ pc'[p] \in BeforeRename \cup {"crashed"} /\ pc'[p] # pc[p])
              => read_storefile(IOPath, IOName)' = read_storefile(IOPath, IOName)]_vars

\* A writer crashed after closing its temporary file, which holds all of its
\* content, and a read still returns the content committed before.
C4_Witness ==
    \E p \in Writers :
        /\ pc[p] = "crashed"
        /\ \E n \in TmpNames(p) :
              n \in DOMAIN files[IOPath] /\ files[IOPath][n] = Stored(New(p))
        /\ read_storefile(IOPath, IOName).kind = "ok"
        /\ read_storefile(IOPath, IOName).val = Old

(***************************************************************************)
(* Round trips: one process writes one entry of r1 and reads it back, for  *)
(* every entry and every pair of contents.                                 *)
(***************************************************************************)
InitRoundTrip ==
    /\ py \in {2, 3}
    /\ \E n \in EntryFiles, v \in Values, w \in Values :
          inputs = [roots |-> {"r1"}, exts |-> {}, names |-> {n}, values |-> {v, w}, old |-> {}]
    /\ InitWC(NoFiles)
    /\ InitProcs

NextRoundTrip ==
    \/ \E path \in inputs.roots, n \in inputs.names :
          \/ read_check(1, path, n)
          \/ \E v \in inputs.values : write_begin(1, path, n, v)
    \/ read_open(1)
    \/ write_tmp(1)
    \/ write_data(1)
    \/ write_nl(1)
    \/ write_close(1)
    \/ write_rename(1)

SpecRoundTrip == InitRoundTrip /\ [][NextRoundTrip]_vars

\* What the round trip asks of a finished write call.
RoundTrip(r) ==
    /\ r.kind = "ok"
    /\ read_storefile(r.call.path, r.call.name).kind = "ok"
    /\ read_storefile(r.call.path, r.call.name).val = strip(r.call.data)
    /\ EntryAt(r.call.path, r.call.name) = <<Stored(r.call.data)>>
    /\ r.call.data = << >> => EntryAt(r.call.path, r.call.name) = << << >> >>

\* C5: round trip.  After write(root, name, v) on an initialized root, read
\* returns v stripped, the empty string is stored as a zero-byte file and any
\* other value with exactly one newline appended.
C5_RoundTrip ==
    (pc[1] = "idle" /\ ret[1].call.op = "write") => RoundTrip(ret[1])

\* The same under Python 2 alone, where the write does not raise.
RoundTripPy2 == py = 2 => C5_RoundTrip

(***************************************************************************)
(* The store: one process runs init, write and read calls, one after the   *)
(* other, on two roots, with and without an external store directory.  No  *)
(* root is a working copy at the start; r1 is missing or a directory, r2 a *)
(* directory, a file or a directory that is not writable; the external     *)
(* directory e1 is usable, empty or holding a _project file already, and   *)
(* e2 is not usable.                                                       *)
(***************************************************************************)
Init ==
    /\ py \in {2, 3}
    /\ \E old \in {{}, {Stored(<<"a">>)}} :
          /\ inputs = [roots |-> Roots, exts |-> {""} \cup Exts,
                       names |-> {"_apiurl", "_project", "_package"},
                       values |-> {<<"a">>}, old |-> old]
          /\ files = [d \in Dirs |-> [n \in {m \in {"_project"} : d = "e1" /\ old # {}} |-> Stored(<<"a">>)]]
    /\ rootKind \in [Roots -> {"absent", "file", "dir", "rodir"}]
    /\ rootKind["r1"] \in {"absent", "dir"}
    /\ rootKind["r2"] \in {"dir", "file", "rodir"}
    /\ extKind \in [Exts -> {"absent", "file", "dir", "rodir"}]
    /\ extKind["e1"] = "dir"
    /\ extKind["e2"] # "dir"
    /\ store = [r \in Roots |-> "none"]
    /\ subdirs = [d \in Dirs |-> {}]
    /\ payload = [d \in Dirs |-> NoFiles]
    /\ InitProcs

Next ==
    \/ \E path \in inputs.roots :
          \/ \E ext \in inputs.exts : init_check(1, path, ext)
          \/ \E n \in inputs.names :
                \/ read_check(1, path, n)
                \/ \E v \in inputs.values : write_begin(1, path, n, v)
    \/ init_makedirs(1)
    \/ \E errno \in MakedirsErrnos : init_makedirs_fail(1, errno)
    \/ init_access(1)
    \/ init_store(1)
    \/ init_data(1)
    \/ read_open(1)
    \/ write_tmp(1)
    \/ write_data(1)
    \/ write_nl(1)
    \/ write_close(1)
    \/ write_rename(1)

Spec == Init /\ [][Next]_vars

\* C6: wc_is_project and wc_is_package are never both true for a root.
C6_ProjectPackageExclusive ==
    \A r \in Roots : ~(wc_is_project(r) /\ wc_is_package(r))

\* r1 is a package working copy while r2 is a project working copy.
C6_Witness == wc_is_package("r1") /\ wc_is_project("r2")

\* The entries among apiurl, project, package present as regular files in the store of r.
Present(r) == {n \in {"_apiurl", "_project", "_package"} : n \in DOMAIN files[storedir(r)]}

\* C7: the classifier by entry presence.  In an existing store, wc_is_project
\* is true exactly when apiurl and project are present and package is
\* absent, and wc_is_package exactly when all three are present.
C7_Classifier ==
    \A r \in Roots :
        has_storedir(r) =>
            /\ wc_is_project(r) <=> Present(r) = {"_apiurl", "_project"}
            /\ wc_is_package(r) <=> Present(r) = {"_apiurl", "_project", "_package"}

\* Scenario A on one root (apiurl and project only) and scenario C on the
\* other (project only).
C7_Witness ==
    \E r, q \in Roots :
        /\ has_storedir(r) /\ has_storedir(q) /\ storedir(r) # storedir(q)
        /\ Present(r) = {"_apiurl", "_project"}
        /\ Present(q) = {"_project"}

\* What holds of a root right after init.
FreshStore(r) ==
    /\ has_storedir(r)
    /\ ~wc_is_project(r)
    /\ ~wc_is_package(r)
    /\ \A e \in Entries : read_storefile(r, EntryFile(e)).kind = "raise"

\* A step of an init call leaves every regular file of every store alone.
InitWritesNoEntry ==
    \A p \in Procs :
        (pc'[p] # pc[p] /\ (loc[p].call.op = "init" \/ loc'[p].call.op = "init"))
            => files' = files

\* C8 as stated: after a successful init of a root and before any entry is
\* written through that root, the store exists, the root is neither project
\* nor package and the read of every entry raises.
C8_FreshAfterInit ==
    \A r \in hist.inited \ hist.written : FreshStore(r)

\* The roots whose store is the directory the store of r is.
Sharing(r) == {q \in Roots : store[q] # "none" /\ storedir(q) = storedir(r)}

\* The store of r held no entry when it was made: it is a directory of its
\* own, or a link to an external directory that was empty.
MadeEmpty(r) == store[r] \in Exts => inputs.old = {}

\* C8 amended: after a successful init of a root whose store directory held
\* no entry then, and before any entry is written into that directory,
\* through that root or through another root whose store is the same
\* directory, the store exists, the root is neither project nor package and
\* the read of every entry raises; and no step of init writes an entry.
C8_FreshAfterInitUnshared ==
    /\ [](\A r \in hist.inited :
            (MadeEmpty(r) /\ Sharing(r) \cap hist.written = {}) => FreshStore(r))
    /\ [][InitWritesNoEntry]_vars

\* init has returned for r1, whose store links to e1, nothing was written yet,
\* and another root has its store linked to e1 too.
C8_Witness ==
    /\ "r1" \in hist.inited
    /\ store["r1"] = "e1"
    /\ Sharing("r1") = Roots
    /\ hist.written = {}
    /\ inputs.old = {}

\* C9: read tells its two failures apart: the error for an absent entry of an
\* existing store differs from the error for a root without a store.
C9_DistinctReadErrors ==
    \A r, q \in Roots, e \in Entries :
        LET noStore == read_storefile(r, EntryFile(e))
            noEntry == read_storefile(q, EntryFile(e))
        IN  (~has_storedir(r) /\ has_storedir(q) /\ noEntry.kind = "raise")
                => noStore.val # noEntry.val

\* The call p starts with this step, when it starts an init call.
StartsInit(p) ==
    /\ pc[p] = "idle"
    /\ \/ pc'[p] # "idle" /\ loc'[p].call.op = "init"
       \/ pc'[p] = "idle" /\ ret'[p] # ret[p] /\ ret'[p].call.op = "init"
StartedCall(p) == IF pc'[p] = "idle" THEN ret'[p].call ELSE loc'[p].call

\* C10 as stated: an init on a root that has a store raises
\* AlreadyAWorkingCopy, whatever ext_storedir is, and changes nothing on disk.
C10_SecondInitFails ==
    [][\A p \in Procs :
          (StartsInit(p) /\ StoreExists(StartedCall(p).path))
              => /\ pc'[p] = "idle"
                 /\ ret'[p] = Raised(StartedCall(p), AlreadyAWorkingCopy)
                 /\ UNCHANGED fsvars]_vars

\* ext_storedir is None or an existing, writable directory.
ValidExt(ext) == ext = "" \/ extKind[ext] = "dir"

\* C10 amended: an init on a root that has a store changes nothing on disk
\* and raises AlreadyAWorkingCopy when ext_storedir is not given or is an
\* existing writable directory, and InvalidExternalStore otherwise.
C10_SecondInitFailsValidExt ==
    [][\A p \in Procs :
          (StartsInit(p) /\ StoreExists(StartedCall(p).path))
              => /\ pc'[p] = "idle"
                 /\ ret'[p] = Raised(StartedCall(p),
                                     IF ValidExt(StartedCall(p).ext) THEN AlreadyAWorkingCopy
                                     ELSE InvalidExternalStore)
                 /\ UNCHANGED fsvars]_vars

\* An init with an external directory has just raised AlreadyAWorkingCopy on
\* a root whose store is a directory holding entries.
C10_Witness ==
    /\ pc[1] = "idle"
    /\ ret[1].call.op = "init" /\ ret[1].call.ext = "e1"
    /\ ret[1].val = AlreadyAWorkingCopy
    /\ store[ret[1].call.path] = "dir"
    /\ Present(ret[1].call.path) # {}

(***************************************************************************)
(* Handles: processes 1 and 2 acquire and release the lock of r1 against   *)
(* each other, process 3 alone acquires and releases the lock of r2.       *)
(***************************************************************************)
Contenders == {1, 2}
Solo == 3
HandleProcs == Contenders \cup {Solo}

InitHandle ==
    /\ py \in {2, 3}
    /\ inputs = NoInputs
    /\ rootKind = [r \in Roots |-> "dir"]
    /\ extKind = [e \in Exts |-> "dir"]
    /\ store = [r \in Roots |-> "dir"]
    /\ files = [d \in Dirs |-> NoFiles]
    /\ subdirs = [d \in Dirs |-> IF d \in Roots THEN {PKG_DATA} ELSE {}]
    /\ payload = [d \in Dirs |-> NoFiles]
    /\ InitProcsAt([p \in Procs |-> IF p = Solo THEN "r2" ELSE "r1"])

NextHandle ==
    \E p \in HandleProcs :
        \/ lock_double(p)
        \/ lock_open(p)
        \/ lock_lockf(p)
        \/ unlock_unacquired(p)
        \/ unlock_lockf(p)
        \/ unlock_close(p)
        \/ unlock_unlink(p)

SpecHandle == InitHandle /\ [][NextHandle]_vars

\* With this step p, idle, starts a call of op on its handle: the call is
\* under way after the step, or it has ended within the step.
StartsOp(p, op) ==
    /\ pc[p] = "idle"
    /\ \/ pc'[p] # "idle" /\ loc'[p].call.op = op
       \/ pc'[p] = "idle" /\ ret'[p] # ret[p] /\ ret'[p].call.op = op

\* C11: lock() on a handle that holds the lock raises the double-lock error
\* within the same step, without opening or locking anything, and leaves the
\* handle, the lock file and the locks of all processes as they were.
C11_DoubleLockFails ==
    [][\A p \in Procs :
          (has_lock(p) /\ StartsOp(p, "lock"))
              => /\ pc'[p] = "idle"
                 /\ ret'[p] = Raised(Call("lock", hpath[p], "", << >>, ""), DoubleLock)
                 /\ has_lock(p)'
                 /\ UNCHANGED <<fsvars, lockvars>>]_vars

\* A handle that holds the lock has raised the double-lock error, still holds
\* the lock, and another process still waits for it.
C11_Witness ==
    \E p, q \in Contenders :
        /\ ret[p] = Raised(Call("lock", hpath[p], "", << >>, ""), DoubleLock)
        /\ Holds(p)
        /\ lockIno[storedir(hpath[p])] = fobj[p]
        /\ pc[q] = "lock_lockf" /\ fd[q] = fobj[p] /\ inoLock[fobj[p]] = p

\* C12: unlock() on a handle that holds no lock raises the
\* unacquired-release error within the same step and changes nothing: the
\* lock file and the locks of all processes stay as they were.
C12_UnacquiredUnlockFails ==
    [][\A p \in Procs :
          (~has_lock(p) /\ StartsOp(p, "unlock"))
              => /\ pc'[p] = "idle"
                 /\ ret'[p] = Raised(Call("unlock", hpath[p], "", << >>, ""), UnacquiredLockRelease)
                 /\ UNCHANGED <<fsvars, lockvars>>]_vars

\* A handle that was released before has raised the unacquired-release error
\* while another process holds the lock of the same root, the lock file in
\* place.
C12_Witness ==
    \E p, q \in Contenders :
        /\ ret[p] = Raised(Call("unlock", hpath[p], "", << >>, ""), UnacquiredLockRelease)
        /\ p \in hist.released
        /\ Holds(q) /\ hpath[q] = hpath[p]
        /\ lockIno[storedir(hpath[q])] = fobj[q] /\ inoLock[fobj[q]] = q

\* C13: a handle used by one process alone.  Between calls has_lock is true
\* exactly when the last call was a lock (one that returned, or one that
\* raised the double-lock error on the lock held since), the only errors are
\* the double-lock error of a lock and the unacquired-release error of an
\* unlock, and a lock never waits: a lock after an unlock returns.
C13_HandleReuse ==
    /\ pc[Solo] = "idle" => (has_lock(Solo) <=> ret[Solo].call.op = "lock")
    /\ ret[Solo].kind = "raise" =>
          \/ ret[Solo].call.op = "lock" /\ ret[Solo].val = DoubleLock
          \/ ret[Solo].call.op = "unlock" /\ ret[Solo].val = UnacquiredLockRelease
    /\ pc[Solo] = "lock_lockf" => inoLock[fd[Solo]] = 0

\* The handle holds the lock again after an unlock of it returned.
C13_Witness ==
    /\ Holds(Solo)
    /\ ret[Solo] = Returned(Call("lock", hpath[Solo], "", << >>, ""), << >>)
    /\ Solo \in hist.released

(***************************************************************************)
(* Scoped acquisition: every process runs with statements on the lock of   *)
(* r1, one after the other, the body returning or raising.  The handle of  *)
(* a with statement is new, so its lock() finds no lock held.              *)
(***************************************************************************)
NextScoped ==
    \E p \in Procs :
        \/ with_enter(p)
        \/ scope[p] = "enter" /\ ret[p].kind = "none" /\ lock_open(p)
        \/ lock_lockf(p)
        \/ \E raises \in BOOLEAN : with_body(p, raises)
        \/ scope[p] \in {"exit", "exit_exc"} /\ ret[p].call.op = "lock" /\ unlock_lockf(p)
        \/ unlock_close(p)
        \/ unlock_unlink(p)
        \/ with_leave(p)

SpecScoped == InitLock /\ [][NextScoped]_vars

\* C14: a with statement releases the lock on every exit path and lets the
\* exception of its body through: when it ends, the handle holds no lock and
\* the statement has returned if the body returned, and has raised the
\* exception of the body if the body raised.
C14_ScopedRelease ==
    [][\A p \in Procs :
          (scope[p] \in {"exit", "exit_exc"} /\ scope'[p] = "out" /\ pc'[p] = "idle")
              => /\ ~has_lock(p)'
                 /\ ret'[p] = IF scope[p] = "exit_exc"
                              THEN Raised(Call("with", hpath[p], "", << >>, ""), BodyException)
                              ELSE Returned(Call("with", hpath[p], "", << >>, ""), << >>)]_vars

(***************************************************************************)
(* The lock with holders that die: processes 1 to 3 acquire and release    *)
(* the lock of r1, and a process that holds it may exit without releasing. *)
(* The kernel grants a lock that is free again and again to a process that *)
(* waits for it (strong fairness of lockf); a process that is alive goes   *)
(* on with the unlock it has to make (weak fairness of its steps).         *)
(***************************************************************************)
NextCrash ==
    \E p \in HandleProcs :
        \/ lock_open(p)
        \/ lock_lockf(p)
        \/ unlock_lockf(p)
        \/ unlock_close(p)
        \/ unlock_unlink(p)
        \/ Holds(p) /\ crash(p)

FairCrash ==
    \A p \in HandleProcs :
        /\ SF_vars(lock_lockf(p))
        /\ WF_vars(unlock_lockf(p))
        /\ WF_vars(unlock_close(p))
        /\ WF_vars(unlock_unlink(p))

SpecCrash == InitLock /\ [][NextCrash]_vars /\ FairCrash

\* C15: once a process has died holding the lock, every process that waits
\* in lockf for the lock of that root, blocked before the death or come
\* after it, gets to hold the lock.
C15_CrashRecovery ==
    \A p \in HandleProcs :
        (pc[p] = "lock_lockf" /\ \E q \in HandleProcs : pc[q] = "crashed") ~> Holds(p)

\* A process holds the lock on the lock file a dead holder left behind: no
\* unlock has ever returned, so the file was never removed.
C15_Witness ==
    \E p, q \in HandleProcs :
        /\ pc[q] = "crashed"
        /\ Holds(p)
        /\ ret[p] = Returned(Call("lock", hpath[p], "", << >>, ""), << >>)
        /\ hist.released = {}
        /\ lockIno[storedir(hpath[p])] = fobj[p]

(***************************************************************************)
(* More on wc_init, checked in Spec.                                       *)
(***************************************************************************)
\* C16: roots share an external store.  An init of a root that is a writable
\* directory, with an external directory that is the store of another root
\* an init returned for, returns too, unless the root has a store already,
\* and leaves the root with that directory as its store.
C16_SharedInitSucceeds ==
    \A p \in Procs :
        LET c == ret[p].call
        IN  (/\ pc[p] = "idle" /\ c.op = "init" /\ c.ext \in Exts
             /\ rootKind[c.path] = "dir"
             /\ \E r \in hist.inited \ {c.path} : store[r] = c.ext
             /\ ret[p].val # AlreadyAWorkingCopy)
                => ret[p].kind = "ok" /\ storedir(c.path) = c.ext

\* What a read of name through root r has to return when the store of r is
\* the external directory e: the stripped content of the file of that name
\* in e, the error when e has no such file.
ReadOf(r, e, name) ==
    IF name \in DOMAIN files[e]
    THEN Returned(Call("read", r, name, << >>, ""), strip(files[e][name]))
    ELSE Raised(Call("read", r, name, << >>, ""), NoValidStorefile)

\* C17: an external store is a link, not a copy.  When init(root, E) has
\* returned, the store of root is E and the data directory is in E and not
\* under root; a read of an entry through a root whose store is E returns
\* what the file of E holds, and root holds no entry file of its own; and a
\* write through such a root changes files of E alone.
C17_ExternalStoreIsLink ==
    /\ [](\A p \in Procs :
            (pc[p] = "idle" /\ ret[p].call.op = "init" /\ ret[p].kind = "ok"
                 /\ ret[p].call.ext \in Exts)
                => /\ store[ret[p].call.path] = ret[p].call.ext
                   /\ PKG_DATA \in subdirs[ret[p].call.ext]
                   /\ PKG_DATA \notin subdirs[ret[p].call.path]
                   /\ IsDirIn(storedir(ret[p].call.path), FALSE, PKG_DATA))
    /\ [](\A r \in Roots :
            store[r] \in Exts
                => /\ files[r] = NoFiles
                   /\ \A n \in EntryFiles : read_storefile(r, n) = ReadOf(r, store[r], n))
    /\ [][\A p \in Procs :
            (loc[p].call.op = "write" /\ store[loc[p].call.path] \in Exts)
                => \A d \in Dirs \ {store[loc[p].call.path]} : files'[d] = files[d]]_vars

\* A read through a root whose store links to e1 has returned the entry that
\* was written through that root and lies in e1.
C17_Witness ==
    /\ pc[1] = "idle"
    /\ ret[1].call.op = "read" /\ ret[1].kind = "ok" /\ ret[1].call.name = "_apiurl"
    /\ store[ret[1].call.path] = "e1"
    /\ ret[1].call.path \in hist.inited \cap hist.written
    /\ "_apiurl" \in DOMAIN files["e1"]
    /\ "_project" \notin DOMAIN files["e1"]

\* C18: in every state, between the steps of init as well, a root has a data
\* directory in its store exactly when it has a store.
C18_DataIffStore ==
    \A r \in Roots :
        store[r] # "none" <=> (StoreIsDir(r) /\ IsDirIn(storedir(r), FALSE, PKG_DATA))

\* C19: an init with an ext_storedir that is no writable directory raises
\* InvalidExternalStore within its first step, whatever the root is, a
\* working copy included, and changes nothing on disk.
C19_InvalidExtFirst ==
    [][\A p \in Procs :
          (StartsInit(p) /\ ~ValidExt(StartedCall(p).ext))
              => /\ pc'[p] = "idle"
                 /\ ret'[p] = Raised(StartedCall(p), InvalidExternalStore)
                 /\ UNCHANGED fsvars]_vars

\* An init with an unusable ext_storedir has raised InvalidExternalStore on
\* a root that is a working copy.
C19_Witness ==
    /\ pc[1] = "idle"
    /\ ret[1].call.op = "init" /\ ret[1].call.ext = "e2"
    /\ ret[1].val = InvalidExternalStore
    /\ StoreExists(ret[1].call.path)

\* C20: init on a root that does not exist.  The step at os.makedirs either
\* creates the root and goes on, no store made yet, or ends the call with an
\* error that is never the bare EACCES, nothing changed on disk and no store
\* there; the error is PermissionDenied for EACCES and the OSError itself
\* for any other errno; and an init that returned has made the store.
C20_CreatesRoot ==
    /\ [][\A p \in Procs :
            (pc[p] = "init_makedirs" /\ pc'[p] # pc[p])
                => \/ /\ pc'[p] = "init_access"
                      /\ rootKind[loc[p].call.path] = "absent"
                      /\ rootKind'[loc[p].call.path] = "dir"
                      /\ store' = store /\ store[loc[p].call.path] = "none"
                   \/ /\ pc'[p] = "idle"
                      /\ ret'[p].kind = "raise" /\ ret'[p].call = loc[p].call
                      /\ ret'[p].val # OSErr("EACCES")
                      /\ UNCHANGED fsvars
                      /\ store[loc[p].call.path] = "none"]_vars
    /\ [][\A p \in Procs, errno \in MakedirsErrnos :
            init_makedirs_fail(p, errno)
                => ret'[p].val = IF errno = "EACCES" THEN PermissionDenied ELSE OSErr(errno)]_vars
    /\ [](\A p \in Procs :
            (pc[p] = "idle" /\ ret[p].call.op = "init" /\ ret[p].kind = "ok")
                => has_storedir(ret[p].call.path))

\* An init of a root that does not exist has raised PermissionDenied, the
\* root still missing and without a store.
C20_Witness ==
    /\ pc[1] = "idle"
    /\ ret[1].call.op = "init" /\ ret[1].val = PermissionDenied
    /\ rootKind[ret[1].call.path] = "absent"
    /\ store[ret[1].call.path] = "none"

(***************************************************************************)
(* The functions that only look, on every shape of a root.  r1 is missing, *)
(* a file or a directory; its store is absent, a directory of its own or a *)
(* link to e1, which is a directory or missing; each of the three names    *)
(* the classifiers look for is absent from the store, a regular file or a  *)
(* directory; the data directory is there or not, and holds a name f as a  *)
(* file, as a directory or not at all.  r2 is a directory without a store. *)
(* Process 1 calls the classifiers, missing_storepaths and read; none of   *)
(* them changes the disk, so missing_storepaths is called on each shape    *)
(* once, as the first call.                                                *)
(***************************************************************************)
FSNames == {"_apiurl", "_project", "_package"}
FSKinds == {"absent", "file", "dir"}
FSContent == <<" ", "a", "\n">>

\* The lists of at most n names of S.
RECURSIVE ListsUpTo(_, _)
ListsUpTo(S, n) ==
    IF n = 0 THEN {<< >>}
    ELSE LET L == ListsUpTo(S, n - 1)
         IN  L \cup {Append(l, x) : l \in {m \in L : Len(m) = n - 1}, x \in S}

\* The names missing_storepaths is asked for, and the lists of them.
MissingNames == {"_apiurl", "_package", PKG_DATA, "f"}
MissingLists == ListsUpTo(MissingNames, MaxNames)

InitFS ==
    /\ py \in {2, 3}
    /\ inputs = [roots |-> Roots, exts |-> {}, names |-> FSNames, values |-> {}, old |-> {}]
    /\ \E rk \in {"absent", "file", "dir", "rodir"}, st \in {"none", "dir", "e1"},
          ek \in {"dir", "absent"}, occ \in [FSNames -> FSKinds],
          hasData \in BOOLEAN, pay \in FSKinds :
          /\ st # "none" => rk \in {"dir", "rodir"}
          /\ ek = "absent" => st = "e1"
          /\ (st = "none" \/ ek = "absent") =>
                (hasData = FALSE /\ occ = [n \in FSNames |-> "absent"])
          /\ ~hasData => pay = "absent"
          /\ rootKind = [r \in Roots |-> IF r = "r1" THEN rk ELSE "dir"]
          /\ extKind = [e \in Exts |-> IF e = "e1" THEN ek ELSE "absent"]
          /\ store = [r \in Roots |-> IF r = "r1" THEN st ELSE "none"]
          /\ LET d0 == IF st = "dir" THEN "r1" ELSE st
             IN  /\ files = [d \in Dirs |->
                              [n \in {m \in FSNames : d = d0 /\ occ[m] = "file"} |-> FSContent]]
                 /\ subdirs = [d \in Dirs |->
                                IF d # d0 THEN {}
                                ELSE {m \in FSNames : occ[m] = "dir"}
                                         \cup (IF hasData THEN {PKG_DATA} ELSE {})]
                 /\ payload = [d \in Dirs |->
                                [n \in {m \in {"f"} : d = d0 /\ pay # "absent"} |-> pay]]
    /\ InitProcs

NextFS ==
    \E path \in inputs.roots :
        \/ is_project_call(1, path)
        \/ is_package_call(1, path)
        \/ /\ ret[1] = NoRet
           /\ \E paths \in MissingLists, dirs \in BOOLEAN, data \in BOOLEAN :
                 missing_call(1, path, paths, dirs, data)
        \/ \E n \in inputs.names : read_check(1, path, n)
        \/ read_open(1)

SpecFS == InitFS /\ [][NextFS]_vars

\* C21: the classifiers are lenient.  A call of wc_is_project or
\* wc_is_package returns, and returns a boolean, whatever the root is; both
\* are false for a root without a store directory, and a name taken by a
\* directory counts as a missing entry.
C21_LenientClassifier ==
    /\ ret[1].call.op \in {"wc_is_project", "wc_is_package"} =>
          /\ ret[1].kind = "ok"
          /\ ret[1].val \in BOOLEAN
          /\ ~has_storedir(ret[1].call.path) => ret[1].val = FALSE
          /\ (has_storedir(ret[1].call.path) /\ ret[1].val) =>
                {"_apiurl", "_project"} \subseteq DOMAIN files[storedir(ret[1].call.path)]
    /\ \A r \in Roots :
          ~has_storedir(r) => (~wc_is_project(r) /\ ~wc_is_package(r))

\* wc_is_package has returned false for a root whose store holds apiurl and
\* project as files and a directory under the name of package.
C21_Witness ==
    /\ ret[1] = Returned(Call("wc_is_package", "r1", "", << >>, ""), FALSE)
    /\ has_storedir("r1")
    /\ {"_apiurl", "_project"} \subseteq DOMAIN files[storedir("r1")]
    /\ "_package" \in subdirs[storedir("r1")]

\* C22: read is strict and only looks.  A read returns exactly when the
\* root has a store directory that holds a regular file of that name, and
\* returns its stripped content; it raises otherwise, a name taken by a
\* directory included; and no step of a read changes anything on disk.
C22_StrictRead ==
    /\ [](ret[1].call.op = "read" =>
            LET r == ret[1].call.path
                n == ret[1].call.name
                isFile == has_storedir(r) /\ n \in DOMAIN files[storedir(r)]
                                          /\ n \notin subdirs[storedir(r)]
            IN  /\ ret[1].kind = "ok" <=> isFile
                /\ ret[1].kind = "ok" => ret[1].val = strip(files[storedir(r)][n])
                /\ ret[1].kind = "raise" => ret[1].val = NoValidStorefile)
    /\ [][(ret'[1].call.op = "read" \/ loc[1].call.op = "read" \/ loc'[1].call.op = "read")
             => UNCHANGED <<fsvars, lockvars>>]_vars

\* A read of a name that a directory has in the store has raised.
C22_Witness ==
    /\ ret[1].call.op = "read" /\ ret[1].kind = "raise"
    /\ has_storedir(ret[1].call.path)
    /\ ret[1].call.name \in subdirs[storedir(ret[1].call.path)]

\* The names of paths that are in S, in the order and as often as they come
\* in paths.
RECURSIVE Keep(_, _)
Keep(paths, S) ==
    IF paths = << >> THEN << >>
    ELSE (IF Head(paths) \in S THEN <<Head(paths)>> ELSE << >>) \o Keep(Tail(paths), S)

\* C24: missing_storepaths returns its whole input when the root has no
\* store directory, and else the names of its input, in order and with
\* repetitions, that are no regular file (dirs false) or no directory (dirs
\* true) in the store (data false) or in its data directory (data true).
C24_Missing ==
    ret[1].call.op = "missing" =>
        LET c == ret[1].call
            d == storedir(c.path)
            There(n) ==
                IF c.underData
                THEN /\ PKG_DATA \in subdirs[d] /\ n \in DOMAIN payload[d]
                     /\ payload[d][n] = (IF c.dirs THEN "dir" ELSE "file")
                ELSE IF c.dirs THEN n \in subdirs[d] ELSE n \in DOMAIN files[d]
            NotThere == {n \in MissingNames : ~There(n)}
        IN  /\ ret[1].kind = "ok"
            /\ ret[1].val = IF ~has_storedir(c.path) THEN c.paths ELSE Keep(c.paths, NotThere)

\* missing_storepaths, asked twice for f as a file under data and once for
\* the data directory, has returned f twice: f is a directory there.
C24_Witness ==
    /\ ret[1].call.op = "missing"
    /\ ret[1].call.paths = <<"f", "f">>
    /\ ret[1].call.underData /\ ~ret[1].call.dirs
    /\ ret[1].val = <<"f", "f">>
    /\ has_storedir(ret[1].call.path)
    /\ "f" \in DOMAIN payload[storedir(ret[1].call.path)]

\* C23: a write on a root without a store directory fails in its first
\* step with the ValueError of _write_storefile and changes nothing on
\* disk: no root, no store, no temporary file and no entry is made, so the
\* root is for wc_init what it was.
C23_WriteNeedsStore ==
    [][\A p \in Procs, r \in Roots :
         (/\ StartsOp(p, "write")
          /\ r = (IF pc'[p] = "idle" THEN ret'[p].call.path ELSE loc'[p].call.path)
          /\ ~has_storedir(r)) =>
             /\ pc'[p] = "idle"
             /\ ret'[p].kind = "raise" /\ ret'[p].val = NoStoredir
             /\ UNCHANGED fsvars]_vars

\* A write on a root that does not exist has raised, and the root still
\* does not exist and has no store and no file.
C23_Witness ==
    \E r \in Roots :
        /\ ret[1].call.op = "write" /\ ret[1].call.path = r
        /\ ret[1].kind = "raise" /\ ret[1].val = NoStoredir
        /\ rootKind[r] = "absent" /\ store[r] = "none"
        /\ files[r] = NoFiles

(***************************************************************************)
(* More on the lock, checked in SpecLock: the release and the wait.        *)
(***************************************************************************)
\* C26: a release by a handle that holds the lock completes.  The last step
\* of an unlock(), os.unlink of the lock file, returns without an error and
\* leaves the store without a lock file.
C26_CleanRelease ==
    [][\A p \in Procs :
         (pc[p] = "unlock_unlink" /\ pc'[p] = "idle") =>
             /\ ret'[p].kind = "ok"
             /\ lockIno'[storedir(hpath[p])] = 0]_vars

\* The kernel grants a lock that is free again and again to one that waits
\* for it; a holder goes on to release, and a release runs to its end.
FairLock ==
    \A p \in Procs :
        /\ SF_vars(lock_lockf(p))
        /\ WF_vars(unlock_lockf(p))
        /\ WF_vars(unlock_close(p))
        /\ WF_vars(unlock_unlink(p))

SpecLockFair == SpecLock /\ FairLock

\* Every process that waits in lockf gets to hold the lock.
AcquireReturns == \A p \in Procs : pc[p] = "lock_lockf" ~> Holds(p)

\* C27: an acquire blocks while another process holds the lock, and makes
\* progress.  No lock() returns while another process holds the lock of the
\* same store, and with holders that release, every lock() that has started
\* returns holding the lock.
C27_AcquireBlocks ==
    /\ [][\A p \in Procs :
            (pc[p] = "lock_lockf" /\ pc'[p] = "idle") =>
                ~\E q \in Procs \ {p} :
                    Holds(q) /\ storedir(hpath[q]) = storedir(hpath[p])]_vars
    /\ AcquireReturns

\* C29: wc_init does all or nothing.  A wc_init that raises, on a root that
\* had no store when it was called, leaves the root without a store.
C29_AllOrNothing ==
    [][\A p \in Procs, r \in Roots :
         (/\ pc'[p] = "idle" /\ ret'[p] # ret[p]
          /\ ret'[p].call.op = "init" /\ ret'[p].call.path = r
          /\ ret'[p].kind = "raise"
          /\ \/ pc[p] # "idle"
             \/ ~StoreExists(r)) => ~StoreExists(r)']_vars

(***************************************************************************)
(* Concurrent wc_init: every process initialises r1, which is missing or a *)
(* writable directory without a store, on its own or with the external     *)
(* directory e1.  No call is made to fail: what fails, fails for what      *)
(* another process did.                                                    *)
(***************************************************************************)
InitRace ==
    /\ py \in {2, 3}
    /\ inputs = [roots |-> {"r1"}, exts |-> {"", "e1"}, names |-> {}, values |-> {}, old |-> {}]
    /\ \E rk \in {"absent", "dir"} :
          rootKind = [r \in Roots |-> IF r = "r1" THEN rk ELSE "dir"]
    /\ extKind = [e \in Exts |-> IF e = "e1" THEN "dir" ELSE "absent"]
    /\ store = [r \in Roots |-> "none"]
    /\ files = [d \in Dirs |-> NoFiles]
    /\ subdirs = [d \in Dirs |-> {}]
    /\ payload = [d \in Dirs |-> [n \in {} |-> "file"]]
    /\ InitProcs

NextRace ==
    \E p \in Procs :
        \/ \E path \in inputs.roots, ext \in inputs.exts : init_check(p, path, ext)
        \/ init_makedirs(p)
        \/ init_access(p)
        \/ init_store(p)
        \/ init_data(p)

SpecRace == InitRace /\ [][NextRace]_vars

\* C28: of the concurrent inits of one root one wins.  At most one wc_init
\* has returned, every other that has ended has raised the ValueError of a
\* root that is a working copy already, and once one has returned the root
\* has a store directory with its data directory.
C28_InitRace ==
    LET inits == {p \in Procs : ret[p].call.op = "init"}
    IN  /\ Cardinality({p \in inits : ret[p].kind = "ok"}) <= 1
        /\ \A p \in inits : ret[p].kind = "raise" => ret[p].val = AlreadyAWorkingCopy
        /\ \A p \in inits : ret[p].kind = "ok" =>
              /\ has_storedir(ret[p].call.path)
              /\ PKG_DATA \in subdirs[storedir(ret[p].call.path)]

(***************************************************************************)
(* Two roots on one external store: r1/.osc and r2/.osc are links to e1,   *)
(* as a wc_init of each with ext_storedir e1 leaves them, so both have the *)
(* lock file e1/wc.lock.  Process 1 has its handle on r1, the others on r2.*)
(***************************************************************************)
InitShared ==
    /\ py \in {2, 3}
    /\ inputs = NoInputs
    /\ rootKind = [r \in Roots |-> "dir"]
    /\ extKind = [e \in Exts |-> IF e = "e1" THEN "dir" ELSE "absent"]
    /\ store = [r \in Roots |-> "e1"]
    /\ files = [d \in Dirs |-> NoFiles]
    /\ subdirs = [d \in Dirs |-> IF d = "e1" THEN {PKG_DATA} ELSE {}]
    /\ payload = [d \in Dirs |-> [n \in {} |-> "file"]]
    /\ InitProcsAt([p \in Procs |-> IF p = 1 THEN "r1" ELSE "r2"])

SpecShared == InitShared /\ [][NextLock]_vars

\* C30: roots on one external store share one lock.  No lock() through one
\* root returns while another process holds the lock it acquired through
\* the other root.
C30_SharedLock ==
    [][\A p \in Procs :
         (pc[p] = "lock_lockf" /\ pc'[p] = "idle") =>
             ~\E q \in Procs \ {p} :
                 /\ Holds(q)
                 /\ hpath[q] # hpath[p]
                 /\ storedir(hpath[q]) = storedir(hpath[p])]_vars

(***************************************************************************)
(* Updates and views of two entries under the lock.  Each writer takes the *)
(* lock of r1, writes its value to _project and then to _package           *)
(* (wc_write_project, wc_write_package) and releases; the reader takes the *)
(* lock, reads _project and then _package (wc_read_project,                *)
(* wc_read_package) and releases.  An exception of a write ends the update *)
(* and the lock is released, as on leaving a with statement.               *)
(***************************************************************************)
\* wc_read_package(path) by a caller that has the project it read just
\* before: the call returns and the caller has the pair.
view_package(p) ==
    /\ pc[p] = "idle"
    /\ ret[p].call.op = "read" /\ ret[p].call.name = "_project"
    /\ LET path == ret[p].call.path
       IN  ret' = [ret EXCEPT ![p] =
                     IF ret[p].kind = "raise" THEN ret[p]
                     ELSE IF read_storefile(path, "_package").kind = "raise"
                     THEN read_storefile(path, "_package")
                     ELSE Returned(Call("view", path, "", << >>, ""),
                                   <<ret[p].val, read_storefile(path, "_package").val>>)]
    /\ UNCHANGED <<envvars, fsvars, lockvars, pc, loc, hist>>

InitTxn ==
    /\ py \in {2, 3}
    /\ inputs = [roots |-> {"r1"}, exts |-> {}, names |-> {"_project", "_package"},
                 values |-> {New(p) : p \in Writers}, old |-> {Stored(Old)}]
    /\ InitWC([n \in {"_project", "_package"} |-> Stored(Old)])
    /\ InitProcs

NextTxn ==
    \/ \E p \in Procs :
          \/ lock_open(p)
          \/ lock_lockf(p)
          \/ unlock_close(p)
          \/ unlock_unlink(p)
    \/ \E p \in Writers :
          \/ ret[p].call.op = "lock" /\ write_begin(p, "r1", "_project", New(p))
          \/ /\ ret[p] = Returned(Call("write", "r1", "_project", New(p), ""), << >>)
             /\ write_begin(p, "r1", "_package", New(p))
          \/ write_tmp(p)
          \/ write_data(p)
          \/ write_nl(p)
          \/ write_close(p)
          \/ write_rename(p)
          \/ /\ ret[p].call.op = "write"
             /\ ret[p].kind = "raise" \/ ret[p].call.name = "_package"
             /\ unlock_lockf(p)
    \/ \/ ret[Reader].call.op = "lock" /\ read_check(Reader, "r1", "_project")
       \/ read_open(Reader)
       \/ view_package(Reader)
       \/ /\ ret[Reader].call.op = "view" \/ ret[Reader].kind = "raise"
          /\ unlock_lockf(Reader)

SpecTxn == InitTxn /\ [][NextTxn]_vars

\* C25: entries written together are seen together.  While no write has
\* raised, the project and the package a reader has read under one lock
\* are the values of one update: both the initial ones or both of one writer.
C25_ConsistentView ==
    (ret[Reader].call.op = "view" /\ ~hist.failed) =>
        ret[Reader].val[1] = ret[Reader].val[2]

(***************************************************************************)
(* All the operations on one root.  r1 is missing or a directory, without  *)
(* a store.  The worker initialises r1, on its own or with the external    *)
(* directory e1, writes and reads its entries and the name of the data     *)
(* directory, with write errors, and calls the classifiers; the locker     *)
(* acquires and releases the lock of r1 on one handle all the while.       *)
(***************************************************************************)
Worker == 1
Locker == 2

InitOps ==
    /\ py \in {2, 3}
    /\ inputs = [roots |-> {"r1"}, exts |-> {"", "e1"},
                 names |-> {"_apiurl", "_project", "_package", PKG_DATA},
                 values |-> {<<"b">>}, old |-> {}]
    /\ \E rk \in {"absent", "dir"} :
          rootKind = [r \in Roots |-> IF r = "r1" THEN rk ELSE "dir"]
    /\ extKind = [e \in Exts |-> IF e = "e1" THEN "dir" ELSE "absent"]
    /\ store = [r \in Roots |-> "none"]
    /\ files = [d \in Dirs |-> NoFiles]
    /\ subdirs = [d \in Dirs |-> {}]
    /\ payload = [d \in Dirs |-> NoFiles]
    /\ InitProcs

NextOps ==
    \/ \E path \in inputs.roots :
          \/ \E ext \in inputs.exts : init_check(Worker, path, ext)
          \/ \E n \in inputs.names :
                \/ read_check(Worker, path, n)
                \/ \E v \in inputs.values : write_begin(Worker, path, n, v)
          \/ is_project_call(Worker, path)
          \/ is_package_call(Worker, path)
    \/ init_makedirs(Worker)
    \/ init_access(Worker)
    \/ init_store(Worker)
    \/ init_data(Worker)
    \/ read_open(Worker)
    \/ write_tmp(Worker)
    \/ write_tmp_fail(Worker)
    \/ write_data(Worker)
    \/ write_nl(Worker)
    \/ write_close(Worker)
    \/ write_close_fail(Worker)
    \/ write_rename(Worker)
    \/ lock_double(Locker)
    \/ lock_open(Locker)
    \/ lock_lockf(Locker)
    \/ unlock_unacquired(Locker)
    \/ unlock_lockf(Locker)
    \/ unlock_close(Locker)
    \/ unlock_unlink(Locker)

SpecOps == InitOps /\ [][NextOps]_vars

\* The positions of a process inside _write_storefile.
WritePcs == {"write_tmp", "write_data", "write_nl", "write_close", "write_rename"}

\* C31: temporary files do not outlive the write.  Whenever a process is not
\* inside a write, no store directory holds a temporary file of its.
C31_NoLeftoverTmp ==
    \A p \in Procs, d \in Dirs :
        pc[p] \notin WritePcs => \A n \in TmpNames(p) : n \notin DOMAIN files[d]

\* Whether a read of the entry would return (the test of _read_storefile),
\* and what the classifiers say of a root.
Readable(r, n) == missing_storepaths(r, <<n>>, FALSE, FALSE) = << >>
ClassOf(r) ==
    IF wc_is_package(r) THEN "package" ELSE IF wc_is_project(r) THEN "project" ELSE "neither"

\* C32: entries are never removed.  No step of an init, a write, a read, a
\* classifier, an acquire or a release makes a read that would have returned
\* raise, or turns a package working copy into something else; a root
\* changes its class only from neither to project, from neither to package
\* or from project to package.  (A step that changes nothing on disk changes
\* none of these.)
C32_EntriesStay ==
    [][\/ UNCHANGED fsvars
       \/ \A r \in Roots :
            /\ \A n \in EntryFiles : Readable(r, n) => Readable(r, n)'
            /\ wc_is_package(r) => wc_is_package(r)'
            /\ \/ ClassOf(r)' = ClassOf(r)
               \/ <<ClassOf(r), ClassOf(r)'>> \in {<<"neither", "project">>,
                                                   <<"neither", "package">>,
                                                   <<"project", "package">>}]_vars

\* r1 is a package working copy of which a read has returned, and the last
\* write on one of its three entries has raised.
C32_Witness ==
    /\ wc_is_package("r1")
    /\ ret[Worker].call.op = "write" /\ ret[Worker].kind = "raise"
    /\ ret[Worker].call.name \in {"_apiurl", "_project", "_package"}
    /\ hist.failed

\* C33: the frame of write and of the lock.  A step of a write changes no
\* root, no store, no directory of a store, nothing under data and nothing
\* of the lock, and no file but the entry written and the temporary file of
\* this write; the step that ends a write that returns leaves the entry with
\* the stored form of the data and its temporary file gone.  A step of lock() or unlock()
\* changes nothing on disk but the lock file, so no entry and no answer of a
\* classifier.
C33_Frame ==
    [][/\ (pc[Worker] \in WritePcs /\ pc'[Worker] # pc[Worker]) =>
            LET c == loc[Worker].call
                d == storedir(c.path)
            IN  /\ UNCHANGED <<rootKind, extKind, store, subdirs, payload, lockvars>>
                /\ \A dd \in Dirs :
                      \A n \in (DOMAIN files[dd] \cup DOMAIN files'[dd])
                                \ (IF dd = d THEN {c.name, loc[Worker].tmp, loc'[Worker].tmp} ELSE {}) :
                          /\ n \in DOMAIN files[dd] /\ n \in DOMAIN files'[dd]
                          /\ files'[dd][n] = files[dd][n]
                /\ (pc'[Worker] = "idle" /\ ret'[Worker].kind = "ok") =>
                      /\ files'[d][c.name] = Stored(c.data)
                      /\ loc[Worker].tmp \notin DOMAIN files'[d]
       /\ (pc'[Locker] # pc[Locker] \/ ret'[Locker] # ret[Locker]) =>
            /\ UNCHANGED fsvars
            /\ \A r \in Roots : ClassOf(r)' = ClassOf(r)]_vars

\* A write of project has returned on a store that holds apiurl as it was
\* written before, the temporary file an earlier write left behind and its
\* data directory, while the locker holds the lock.
C33_Witness ==
    /\ ret[Worker] = Returned(Call("write", "r1", "_project", <<"b">>, ""), << >>)
    /\ TmpName(Worker, 1) \in DOMAIN files[storedir("r1")]
    /\ has_storedir("r1")
    /\ "_apiurl" \in DOMAIN files[storedir("r1")]
    /\ files[storedir("r1")]["_apiurl"] = Stored(<<"b">>)
    /\ files[storedir("r1")]["_project"] = Stored(<<"b">>)
    /\ PKG_DATA \in subdirs[storedir("r1")]
    /\ Holds(Locker)
    /\ lockIno[storedir("r1")] = fobj[Locker]

\* C35: a failed acquire leaves the handle unheld.  A lock() on a root
\* without a store directory raises the error of open() in its first step
\* and changes nothing on disk, no lock file and nothing of the handle, so
\* has_lock() stays false; an unlock() that follows raises the error of an
\* unacquired release; and a lock() on that handle once the root has a store
\* directory opens the lock file and is granted the lock.
C35_FailedAcquire ==
    /\ [][(StartsOp(Locker, "lock") /\ ~StoreIsDir(hpath[Locker])) =>
             /\ pc'[Locker] = "idle"
             /\ ret'[Locker] = Raised(Call("lock", hpath[Locker], "", << >>, ""),
                                      <<"IOError", "ENOENT">>)
             /\ ~has_lock(Locker)'
             /\ UNCHANGED <<fsvars, lockvars>>]_vars
    /\ [][(StartsOp(Locker, "unlock") /\ Locker \in hist.refused /\ ~has_lock(Locker)) =>
             /\ ret'[Locker].val = UnacquiredLockRelease
             /\ UNCHANGED <<fsvars, lockvars>>]_vars
    /\ [][(StartsOp(Locker, "lock") /\ Locker \in hist.refused
             /\ StoreIsDir(hpath[Locker]) /\ ~has_lock(Locker)) =>
             /\ pc'[Locker] = "lock_lockf"
             /\ lockIno'[storedir(hpath[Locker])] = fd'[Locker]
             /\ inoLock'[fd'[Locker]] \in {0, Locker}]_vars
    /\ [](Locker \in hist.refused /\ pc[Locker] = "lock_lockf" => inoLock[fd[Locker]] \in {0, Locker})

\* The handle a lock() was refused on, before the root had a store, holds
\* the lock of the root an init has returned for since.
C35_Witness ==
    /\ Locker \in hist.refused
    /\ "r1" \in hist.inited
    /\ Holds(Locker)
    /\ ret[Locker] = Returned(Call("lock", "r1", "", << >>, ""), << >>)
    /\ lockIno[storedir("r1")] = fobj[Locker]

(***************************************************************************)
(* Writers of one entry without the lock: each writer writes its own value *)
(* to _apiurl of r1, again and again, and no write is made to fail.        *)
(***************************************************************************)
NextPair ==
    \E p \in Writers :
        \/ \E path \in inputs.roots, n \in inputs.names : write_begin(p, path, n, New(p))
        \/ write_tmp(p)
        \/ write_data(p)
        \/ write_nl(p)
        \/ write_close(p)
        \/ write_rename(p)

SpecPair == InitIO /\ [][NextPair]_vars

\* Every writer has ended a write and none is inside one.
AllWrote == \A p \in Writers : pc[p] = "idle" /\ ret[p].call.op = "write"

\* The writers have temporary files of their own, and once all have written
\* the entry holds the complete stored value of one of them.
OneCompleteValue ==
    /\ \A p, q \in Writers :
          (p # q /\ loc[p].tmp # "" /\ loc[q].tmp # "") => loc[p].tmp # loc[q].tmp
    /\ AllWrote => EntryAt(IOPath, IOName) \in {<<Stored(New(p))>> : p \in Writers}

\* The rename of a writer leaves its complete stored value in the entry.
LastRenameWins ==
    \A p \in Writers :
        (pc[p] = "write_rename" /\ pc'[p] = "idle") =>
            EntryAt(IOPath, IOName)' = <<Stored(New(p))>>

\* C34: concurrent writers without the lock do not corrupt an entry.  The
\* writers use distinct temporary files, each rename leaves the entry with
\* the complete value of the writer that renamed, and once all have written
\* the entry holds exactly one of the complete values.
C34_ConcurrentWriters == []OneCompleteValue /\ [][LastRenameWins]_vars

\* The same where a str is a byte string (Python 2).
ConcurrentWritersPy2 == [](py = 2 => OneCompleteValue) /\ [][py = 2 => LastRenameWins]_vars

====
